---- MODULE Spec2Model ----
(***************************************************************************)
(* A model of forum-rs: the ThreadGraph engine (src/src/graph.rs), the     *)
(* Post record (src/src/forum_thread.rs) and the per-folder pipelines      *)
(* that feed it (src/src/sender.rs, src/src/experimental/).                *)
(*                                                                         *)
(* Node indices are 1-based here (petgraph's NodeIndex is 0-based): index  *)
(* i of the model is NodeIndex i-1 of the code.                            *)
(***************************************************************************)
EXTENDS Integers, Sequences, FiniteSets, TLC

VARIABLES
    tg,         \* the ThreadGraph
    calls,      \* number of ThreadGraph calls made so far
    last,       \* the latest call: its name, its Post argument, the index it used
    out,        \* what the latest traverse returned
    ntraverse,  \* number of traverse calls made so far
    panicked,   \* a call has panicked
    records,    \* history: the ids that were inserted as a record of their own
    marked,     \* history: the indices a caller passed to add_threads
    posts,      \* test_functional_graph: the shuffled Vec<Post>
    pos,        \* test_functional_graph: posts[1..pos] went through the first loop
    comments,   \* test_functional_graph: the Vec of the posts that are no thread
    epos,       \* test_functional_graph: comments[1..epos] went through the second loop
    tpc,        \* test_functional_graph: "run" until traverse has returned, then "done"
    files,      \* get_threads: the lines of every shard file of the folder
    benchmark,  \* get_threads: the environment has BENCHMARK=1
    mpc,        \* get_threads: where the calling thread is
    wst,        \* get_threads: per shard, "todo", "running", "done" or "panicked"
    wpos,       \* get_threads: per shard, the number of lines consumed
    chan,       \* the unbounded channel of Posts
    senders,    \* the number of live Sender handles of the channel
    cpc,        \* process_graph: where the spawned thread is
    sent,       \* history: the Posts sent on the channel, in sending order
    ingested,   \* history: the Posts given to add_post, in order
    lock,       \* experimental::parallel: the holder of the graph's Mutex, or "free"
    low_memory,    \* main: args.low_memory
    all_folders,   \* main: per topic folder, what its pipeline will do
    leaves,        \* main: the runs of folders that par_iter folds sequentially
    fst,           \* main: per folder, "todo", "running", "done", "panicked"
    fsent,         \* main: per folder, the number of records sent so far
    data_chan,     \* main: the unbounded channel of output Strings
    data_senders,  \* main: the number of live Sender<String> handles
    mainpc,        \* main: where the main thread is
    wrpc,          \* write_jsonl_receiver: where the writer task is
    wrbuf,         \* write_jsonl_receiver: the bytes held by the BufWriter
    wrfile,        \* write_jsonl_receiver: the bytes of all.jsonl
    wrrecv,        \* history: the Strings recv returned, in order
    data,          \* _write_jsonl: the content size of every ThreadPost
    bytes,         \* _write_jsonl: the bytes argument
    chunk_size,    \* _write_jsonl: the result of get_chunk_size, -1 before
    shard_files,   \* _write_jsonl: the files created, index -> records written
    wjpc,          \* _write_jsonl: where the call is
    MAIN_REGEX,    \* globals: the OnceLock is "unset" or "set"
    SPACE_REGEX,   \* globals: the OnceLock is "unset" or "set"
    TOKENIZER,     \* globals: the OnceLock is "unset" or "set"
    content,       \* process: the texts of one thread
    thread_id,     \* process: the thread id argument
    forum_name,    \* process: the forum name argument
    use_sentencepiece, \* process: count tokens, not words
    result,        \* the outcome of the latest call of the text stage
    tcalls,        \* number of calls of the text stage made so far
    inits,         \* history: the calls of init_regex and init_tokenizer, in order
    arrival_par,   \* _get_threads: the Posts in the order its tasks lock the graph
    par_pos,       \* _get_threads: arrival_par[1..par_pos] went through the first phase
    par_pending,   \* _get_threads: the comments whose node is added, not yet pushed
    par_comments,  \* _get_threads: the comments Vec
    par_epos,      \* _get_threads: par_comments[1..par_epos] went through add_edge
    par_tg,        \* _get_threads: its ThreadGraph
    par_out,       \* _get_threads: what it returned
    arrival_snd,   \* experimental::sender::get_threads: the Posts in channel order
    snd_pos,       \* experimental::sender: arrival_snd[1..snd_pos] went through add_post
    eqpc,          \* test_threads_integration: "off", "par", "edges", "snd", "done"
    tp_threads,    \* sender_thread_posts, create_thread_posts: the threads argument
    tp_leaves,     \* the runs of threads that the parallel iterator folds sequentially
    folded,        \* per run, the number of its threads that went through the closure
    sender_rx,     \* sender_thread_posts: the Strings sent, each with its number
    thread_posts,  \* create_thread_posts: the Vec<String> posts, "" where not yet written
    byte_counter,  \* create_thread_posts: the AtomicUsize
    tppc           \* where the call of the function is

apiVars == <<calls, last, records, marked>>
testVars == <<posts, pos, comments, epos, tpc>>
pipeVars == <<files, benchmark, mpc, wst, wpos, chan, senders, cpc, sent,
              ingested, lock>>
mainVars == <<low_memory, all_folders, leaves, fst, fsent, data_chan, data_senders, mainpc,
              wrpc, wrbuf, wrfile, wrrecv>>
writerVars == <<data, bytes, chunk_size, shard_files, wjpc>>
textVars == <<MAIN_REGEX, SPACE_REGEX, TOKENIZER, content, thread_id, forum_name,
              use_sentencepiece, result, tcalls, inits>>
equivVars == <<arrival_par, par_pos, par_pending, par_comments, par_epos, par_tg, par_out,
               arrival_snd, snd_pos, eqpc>>
postVars == <<tp_threads, tp_leaves, folded, sender_rx, thread_posts, byte_counter, tppc>>
extVars == <<mainVars, writerVars, textVars, equivVars, postVars>>
coreVars == <<tg, out, ntraverse, panicked, apiVars, testVars, pipeVars>>
vars == <<coreVars, extVars>>

(***************************************************************************)
(* Bounds                                                                  *)
(***************************************************************************)
\* the number of ThreadGraph calls made on one graph
MaxOps == 4

(***************************************************************************)
(* Post (forum_thread.rs)                                                  *)
(***************************************************************************)
Post(id, is_thread, pagetext, parent_post_id, root_post_id) ==
    [id |-> id, is_thread |-> is_thread, pagetext |-> pagetext,
     parent_post_id |-> parent_post_id, root_post_id |-> root_post_id]

placeholder(id) ==
    [id |-> id, is_thread |-> TRUE, pagetext |-> "",
     parent_post_id |-> id, root_post_id |-> id]

\* The records the inputs are drawn from: a thread root and a second record
\* with the same id and another text, a reply, a reply to the reply, two
\* replies to a parent that has no record ("9"; one of them reuses id "3"),
\* and a record that is its own parent without being marked a thread.
PostUniverse ==
    { Post("1", TRUE,  "A",  "1", "1"),
      Post("1", TRUE,  "A2", "1", "1"),
      Post("2", FALSE, "B",  "1", "1"),
      Post("3", FALSE, "C",  "2", "1"),
      Post("3", FALSE, "C2", "9", "9"),
      Post("4", FALSE, "D",  "9", "9"),
      Post("5", FALSE, "E",  "5", "5") }

(***************************************************************************)
(* ThreadGraph (graph.rs)                                                  *)
(***************************************************************************)
EmptyMap == [x \in {} |-> 0]

Put(m, k, v) == [x \in (DOMAIN m) \cup {k} |-> IF x = k THEN v ELSE m[x]]

\* ThreadGraph::new: graph (node weights and the edge list in insertion
\* order), node_map, threads (the tracked roots), allthreads (the payloads)
new ==
    [graph |-> [nodes |-> <<>>, edges |-> <<>>],
     node_map |-> EmptyMap,
     threads |-> <<>>,
     allthreads |-> <<>>]

is_in_map(g, id) == id \in DOMAIN g.node_map

\* add_node without the lookup: a new node for every call
add_node_always_new(g, post) ==
    LET idx == Len(g.graph.nodes) + 1
    IN  [g |-> [g EXCEPT !.graph.nodes = Append(@, post.id),
                         !.allthreads = Append(@, post),
                         !.node_map = Put(@, post.id, idx)],
         idx |-> idx]

\* add_node: the index of the node of post.id, created when the id is new.
\* Yields the graph and the returned index.
add_node(g, post) ==
    IF is_in_map(g, post.id)
    THEN [g |-> g, idx |-> g.node_map[post.id]]
    ELSE LET idx == Len(g.graph.nodes) + 1
         IN  [g |-> [g EXCEPT !.graph.nodes = Append(@, post.id),
                              !.allthreads = Append(@, post),
                              !.node_map = Put(@, post.id, idx)],
              idx |-> idx]

add_threads(g, idx) == [g EXCEPT !.threads = Append(@, idx)]

\* add_edge, up to the two lookups: a placeholder node for an unseen
\* from_id, registered in threads
add_edge_no_root(g, from_id) ==
    IF ~ is_in_map(g, from_id)
    THEN add_node(g, placeholder(from_id)).g
    ELSE g

add_edge_prepare(g, from_id) ==
    IF ~ is_in_map(g, from_id)
    THEN LET r == add_node(g, placeholder(from_id))
         IN  add_threads(r.g, r.idx)
    ELSE g

\* the second lookup of add_edge fails: expect("to_id should exist ...")
add_edge_panics(g, from_id, to_id) ==
    ~ is_in_map(add_edge_prepare(g, from_id), to_id)

\* add_edge that enters an unseen from_id in node_map under the next free
\* index and adds the edge without creating the node
add_edge_unchecked(g, from_id, to_id) ==
    LET node_map == IF is_in_map(g, from_id) THEN g.node_map
                    ELSE Put(g.node_map, from_id, Len(g.graph.nodes) + 1)
    IN  [g EXCEPT !.node_map = node_map,
                  !.graph.edges = Append(@, <<node_map[from_id], node_map[to_id]>>)]

add_edge(g, from_id, to_id) ==
    LET g1 == add_edge_prepare(g, from_id)
    IN  [g1 EXCEPT !.graph.edges =
             Append(@, <<g1.node_map[from_id], g1.node_map[to_id]>>)]

\* Graph::neighbors of petgraph: the targets of the outgoing edges of node a,
\* the most recently added edge first
RECURSIVE neighbors_upto(_, _, _)
neighbors_upto(gr, a, k) ==
    IF k = 0 THEN <<>>
    ELSE IF gr.edges[k][1] = a
         THEN <<gr.edges[k][2]>> \o neighbors_upto(gr, a, k - 1)
         ELSE neighbors_upto(gr, a, k - 1)

\* the targets of the outgoing edges of node a, the oldest edge first
neighbors_oldest_first(gr, a) ==
    LET outgoing == SelectSeq(gr.edges, LAMBDA e : e[1] = a)
    IN  [k \in 1..Len(outgoing) |-> outgoing[k][2]]

neighbors(gr, a) == neighbors_upto(gr, a, Len(gr.edges))

\* petgraph's Dfs: Dfs::new puts start on the stack; next pops until it
\* finds an undiscovered node, marks it, pushes its undiscovered successors
\* and yields it.  The result is the sequence of all nodes next yields.
RECURSIVE dfs_no_visited(_, _, _, _)
dfs_no_visited(gr, stack, discovered, order) ==
    IF stack = <<>> \/ Len(order) > Len(gr.edges) + 1 THEN order
    ELSE LET node == stack[Len(stack)]
             rest == SubSeq(stack, 1, Len(stack) - 1)
         IN  dfs_no_visited(gr, rest \o neighbors(gr, node),
                            discovered, Append(order, node))

\* a Dfs that looks at the discovered set when it pushes a successor only,
\* not when it pops a node
RECURSIVE dfs_no_pop_check(_, _, _, _)
dfs_no_pop_check(gr, stack, discovered, order) ==
    IF stack = <<>> THEN order
    ELSE LET node == stack[Len(stack)]
             rest == SubSeq(stack, 1, Len(stack) - 1)
             seen == discovered \cup {node}
             succ == SelectSeq(neighbors(gr, node), LAMBDA n : n \notin seen)
         IN  dfs_no_pop_check(gr, rest \o succ, seen, Append(order, node))

RECURSIVE dfs(_, _, _, _)
dfs(gr, stack, discovered, order) ==
    IF stack = <<>> THEN order
    ELSE LET node == stack[Len(stack)]
             rest == SubSeq(stack, 1, Len(stack) - 1)
         IN  IF node \in discovered
             THEN dfs(gr, rest, discovered, order)
             ELSE LET seen == discovered \cup {node}
                      succ == SelectSeq(neighbors(gr, node),
                                        LAMBDA n : n \notin seen)
                  IN  dfs(gr, rest \o succ, seen, Append(order, node))

\* the local `threads` of traverse's closure: the indices the Dfs from start
\* visits, in visiting order
dfs_order(g, start) == dfs(g.graph, <<start>>, {}, <<>>)

\* traverse: one (root_id, texts) pair per entry of threads, in the order of
\* threads (collect_into_vec keeps the order of an indexed parallel iterator).
\* It takes &self: the graph is left as it is.
traverse(g) ==
    [i \in 1..Len(g.threads) |->
        LET start == g.threads[i]
            order == dfs_order(g, start)
        IN  <<g.graph.nodes[start],
              [k \in 1..Len(order) |-> g.allthreads[order[k]].pagetext]>>]

\* show_roots that does not count the edge of a node to itself
show_roots_ignoring_self_loops(g) ==
    SelectSeq([i \in 1..Len(g.graph.nodes) |-> i],
              LAMBDA n : \A k \in 1..Len(g.graph.edges) :
                  g.graph.edges[k][2] = n => g.graph.edges[k][1] = n)

\* show_roots: the nodes without an incoming edge, in index order
show_roots(g) ==
    SelectSeq([i \in 1..Len(g.graph.nodes) |-> i],
              LAMBDA n : \A k \in 1..Len(g.graph.edges) : g.graph.edges[k][2] # n)

\* add_post is called by sender.rs and experimental/ but its body is not part
\* of the sources at hand; this is section 4.1 of the specification: a node
\* for the id (the payload of an existing node is overwritten), an edge
\* parent -> post unless the post is its own parent (add_edge synthesizes the
\* placeholder of an unseen parent), and the node is registered in threads
\* when is_thread is set.
add_post(g, post) ==
    LET r  == IF is_in_map(g, post.id)
              THEN [g |-> [g EXCEPT !.allthreads[g.node_map[post.id]] = post],
                    idx |-> g.node_map[post.id]]
              ELSE add_node(g, post)
        g2 == IF post.parent_post_id = post.id
              THEN r.g
              ELSE add_edge(r.g, post.parent_post_id, post.id)
    IN  IF post.is_thread THEN add_threads(g2, r.idx) ELSE g2

(***************************************************************************)
(* Spec: the calls of the ThreadGraph API on one graph, in any order       *)
(***************************************************************************)
NoPost == Post("", FALSE, "", "", "")

Call(op, post, idx) == [op |-> op, post |-> post, idx |-> idx]

\* the variables of the pipelines, while no pipeline runs
PipeOff ==
    /\ files = <<>> /\ benchmark = FALSE /\ mpc = "off"
    /\ wst = <<>> /\ wpos = <<>> /\ chan = <<>> /\ senders = 0
    /\ cpc = "off" /\ sent = <<>> /\ ingested = <<>>
    /\ lock = "free"

\* the variables of test_functional_graph, while it does not run
TestOff ==
    posts = <<>> /\ pos = 0 /\ comments = <<>> /\ epos = 0 /\ tpc = "off"

\* the variables of the free API calls, while none is made
ApiOff ==
    calls = 0 /\ last = Call("new", NoPost, 0) /\ records = {} /\ marked = {}

\* the variables of main and of the writer task, while main does not run
MainOff ==
    /\ low_memory = FALSE
    /\ all_folders = <<>> /\ leaves = {} /\ fst = <<>> /\ fsent = <<>>
    /\ data_chan = <<>> /\ data_senders = 0 /\ mainpc = "off"
    /\ wrpc = "off" /\ wrbuf = <<>> /\ wrfile = <<>> /\ wrrecv = <<>>

\* the variables of _write_jsonl, while it is not called
WriterOff ==
    /\ data = <<>> /\ bytes = 0 /\ chunk_size = -1 /\ shard_files = <<>>
    /\ wjpc = "off"

\* the variables of the text stage, while it is not used
TextOff ==
    /\ MAIN_REGEX = "unset" /\ SPACE_REGEX = "unset" /\ TOKENIZER = "unset"
    /\ content = <<>> /\ thread_id = "" /\ forum_name = ""
    /\ use_sentencepiece = FALSE /\ result = [kind |-> "none"] /\ tcalls = 0 /\ inits = <<>>

\* the variables of sender_thread_posts and create_thread_posts, while
\* neither is called
PostsOff ==
    /\ tp_threads = <<>> /\ tp_leaves = {} /\ folded = <<>> /\ sender_rx = <<>>
    /\ thread_posts = <<>> /\ byte_counter = 0 /\ tppc = "off"

\* the variables of test_threads_integration, while it does not run
EquivOff ==
    /\ arrival_par = <<>> /\ par_pos = 0 /\ par_pending = {}
    /\ par_comments = <<>> /\ par_epos = 0
    /\ par_tg = new /\ par_out = <<>> /\ arrival_snd = <<>> /\ snd_pos = 0
    /\ eqpc = "off"

Init ==
    /\ PostsOff
    /\ MainOff /\ WriterOff /\ TextOff /\ EquivOff
    /\ tg = new
    /\ calls = 0
    /\ last = Call("new", NoPost, 0)
    /\ out = <<>>
    /\ ntraverse = 0
    /\ panicked = FALSE
    /\ records = {}
    /\ marked = {}
    /\ TestOff
    /\ PipeOff

CanCall == calls < MaxOps /\ ~ panicked

AddNode(post) ==
    /\ CanCall
    /\ LET r == add_node(tg, post)
       IN  /\ tg' = r.g
           /\ last' = Call("add_node", post, r.idx)
    /\ calls' = calls + 1
    /\ records' = records \cup {post.id}
    /\ UNCHANGED <<extVars, out, ntraverse, panicked, marked, testVars, pipeVars>>

AddThreads(idx) ==
    /\ CanCall
    /\ tg' = add_threads(tg, idx)
    /\ last' = Call("add_threads", NoPost, idx)
    /\ calls' = calls + 1
    /\ marked' = marked \cup {idx}
    /\ UNCHANGED <<extVars, out, ntraverse, panicked, records, testVars, pipeVars>>

\* add_edge(&comment.parent_post_id, &comment.id)
AddEdge(comment) ==
    /\ CanCall
    /\ ~ add_edge_panics(tg, comment.parent_post_id, comment.id)
    /\ tg' = add_edge(tg, comment.parent_post_id, comment.id)
    /\ last' = Call("add_edge", comment, tg'.node_map[comment.id])
    /\ calls' = calls + 1
    /\ UNCHANGED <<extVars, out, ntraverse, panicked, records, marked, testVars, pipeVars>>

\* add_edge with a to_id that has no node: the placeholder of an unseen
\* from_id is already in the graph when the second expect panics
AddEdgePanic(comment) ==
    /\ CanCall
    /\ add_edge_panics(tg, comment.parent_post_id, comment.id)
    /\ tg' = add_edge_prepare(tg, comment.parent_post_id)
    /\ last' = Call("add_edge", comment, 0)
    /\ calls' = calls + 1
    /\ panicked' = TRUE
    /\ UNCHANGED <<extVars, out, ntraverse, records, marked, testVars, pipeVars>>

AddPost(post) ==
    /\ CanCall
    /\ tg' = add_post(tg, post)
    /\ last' = Call("add_post", post, tg'.node_map[post.id])
    /\ calls' = calls + 1
    /\ records' = records \cup {post.id}
    /\ UNCHANGED <<extVars, out, ntraverse, panicked, marked, testVars, pipeVars>>

Traverse ==
    /\ CanCall
    /\ out' = traverse(tg)
    /\ ntraverse' = ntraverse + 1
    /\ last' = Call("traverse", NoPost, 0)
    /\ calls' = calls + 1
    /\ UNCHANGED <<extVars, tg, panicked, records, marked, testVars, pipeVars>>

Next ==
    \/ \E post \in PostUniverse : AddNode(post)
    \/ \E idx \in 1..Len(tg.graph.nodes) : AddThreads(idx)
    \/ \E comment \in PostUniverse : AddEdge(comment)
    \/ \E comment \in PostUniverse : AddEdgePanic(comment)
    \/ \E post \in PostUniverse : AddPost(post)
    \/ Traverse

Spec == Init /\ [][Next]_vars

(***************************************************************************)
(* SpecTest: test_functional_graph (graph.rs): a set of posts in a         *)
(* shuffled order, every post through add_node (and add_threads, or the    *)
(* comments Vec), then every comment through add_edge, then traverse       *)
(***************************************************************************)
\* the number of posts of a test run
MaxPosts == 3

\* every order of every set of at most MaxPosts posts
Shuffles ==
    UNION { {sq \in [1..n -> PostUniverse] :
                \A i, j \in 1..n : i # j => sq[i] # sq[j]} : n \in 0..MaxPosts }

\* the body of the first loop: add_node, then add_threads or comments.push.
\* Yields the graph and the comments Vec.
test_insert_eager(g, cs, post) ==
    LET r == add_node(g, post)
    IN  IF post.is_thread
        THEN [g |-> add_threads(r.g, r.idx), comments |-> cs]
        ELSE [g |-> add_edge(r.g, post.parent_post_id, post.id),
              comments |-> Append(cs, post)]

\* the first loop registering every post as a thread
test_insert_all_threads(g, cs, post) ==
    LET r == add_node(g, post)
    IN  [g |-> add_threads(r.g, r.idx),
         comments |-> IF post.is_thread THEN cs ELSE Append(cs, post)]

test_insert(g, cs, post) ==
    LET r == add_node(g, post)
    IN  IF post.is_thread
        THEN [g |-> add_threads(r.g, r.idx), comments |-> cs]
        ELSE [g |-> r.g, comments |-> Append(cs, post)]

InitTest ==
    /\ PostsOff
    /\ MainOff /\ WriterOff /\ TextOff /\ EquivOff
    /\ tg = new
    /\ out = <<>>
    /\ ntraverse = 0
    /\ panicked = FALSE
    /\ ApiOff
    /\ PipeOff
    /\ posts \in Shuffles
    /\ pos = 0
    /\ comments = <<>>
    /\ epos = 0
    /\ tpc = "run"

TestAddNode ==
    /\ tpc = "run"
    /\ pos < Len(posts)
    /\ LET r == test_insert(tg, comments, posts[pos + 1])
       IN  /\ tg' = r.g
           /\ comments' = r.comments
    /\ pos' = pos + 1
    /\ UNCHANGED <<extVars, out, ntraverse, panicked, apiVars, posts, epos, tpc, pipeVars>>

TestAddEdge ==
    /\ tpc = "run"
    /\ pos = Len(posts)
    /\ epos < Len(comments)
    /\ LET comment == comments[epos + 1]
       IN  tg' = add_edge(tg, comment.parent_post_id, comment.id)
    /\ epos' = epos + 1
    /\ UNCHANGED <<extVars, out, ntraverse, panicked, apiVars, posts, pos, comments, tpc, pipeVars>>

TestTraverse ==
    /\ tpc = "run"
    /\ pos = Len(posts)
    /\ epos = Len(comments)
    /\ out' = traverse(tg)
    /\ ntraverse' = ntraverse + 1
    /\ tpc' = "done"
    /\ UNCHANGED <<extVars, tg, panicked, apiVars, posts, pos, comments, epos, pipeVars>>

NextTest == TestAddNode \/ TestAddEdge \/ TestTraverse

SpecTest == InitTest /\ [][NextTest]_vars

(***************************************************************************)
(* Vocabulary of the properties                                            *)
(***************************************************************************)
Count(seq, x) == Cardinality({k \in 1..Len(seq) : seq[k] = x})

Range(seq) == {seq[k] : k \in 1..Len(seq)}

EdgeSet(g) == Range(g.graph.edges)

\* the nodes reachable from start along edges, start included
RECURSIVE Closure(_, _)
Closure(g, S) ==
    LET T == S \cup {e[2] : e \in {d \in EdgeSet(g) : d[1] \in S}}
    IN  IF T = S THEN S ELSE Closure(g, T)

Reachable(g, start) == Closure(g, {start})

RootIds(res) == {res[i][1] : i \in 1..Len(res)}

(***************************************************************************)
(* Input lines (forum_thread.rs: JsonStruct, Post::from_json_struct)       *)
(***************************************************************************)
\* JsonStruct: five string fields
JsonStruct(id, is_thread, pagetext, parent_post_id, root_post_id) ==
    [id |-> id, is_thread |-> is_thread, pagetext |-> pagetext,
     parent_post_id |-> parent_post_id, root_post_id |-> root_post_id]

\* Post::from_json_struct: is_thread is true exactly for "Y"
from_json_struct(json) ==
    Post(json.id, json.is_thread = "Y", json.pagetext,
         json.parent_post_id, json.root_post_id)

\* A line of a shard file, as reader.lines() and serde_json::from_str see it:
\*   "json"      a line that deserializes into the JsonStruct it carries
\*   "malformed" a line serde_json rejects (bad JSON, or a field missing)
\*   "io_err"    a line for which lines() yields Err (bytes that are no UTF-8)
JsonLine(json) == [kind |-> "json", json |-> json]
NoJson == JsonStruct("", "", "", "", "")
Malformed == [kind |-> "malformed", json |-> NoJson]
IoErr == [kind |-> "io_err", json |-> NoJson]

\* serde_json::from_str::<JsonStruct>(&line).ok().and_then(from_json_struct):
\* the set holding the Post, or the empty set for None
parse_line(line) ==
    IF line.kind = "json" THEN {from_json_struct(line.json)} ELSE {}

LineUniverse ==
    { JsonLine(JsonStruct("1", "Y", "A", "1", "1")),
      JsonLine(JsonStruct("2", "N", "B", "1", "1")),
      JsonLine(JsonStruct("4", "y", "D", "9", "9")),
      Malformed,
      IoErr }

\* the shard files a folder may hold, in the order single_folder lists them
ShardOrder == <<"a.jsonl", "b.jsonl">>
Shards == Range(ShardOrder)

\* the number of lines of a folder, all shards together
MaxLines == 3

RECURSIVE SumLen(_, _)
SumLen(f, E) ==
    IF E = {} THEN 0
    ELSE LET e == CHOOSE x \in E : TRUE IN Len(f[e]) + SumLen(f, E \ {e})

SeqsUpTo(S, n) == UNION {[1..k -> S] : k \in 0..n}

\* every folder: a set of shards, each a sequence of lines
Folders ==
    UNION { {f \in [E -> SeqsUpTo(LineUniverse, MaxLines)] :
                SumLen(f, E) <= MaxLines} : E \in SUBSET Shards }

(***************************************************************************)
(* SpecSender: get_threads of sender.rs (experimental/sender.rs is the     *)
(* same without the BENCHMARK branch)                                      *)
(***************************************************************************)
entries == DOMAIN files

InitSender ==
    /\ PostsOff
    /\ MainOff /\ WriterOff /\ TextOff /\ EquivOff
    /\ tg = new
    /\ out = <<>>
    /\ ntraverse = 0
    /\ panicked = FALSE
    /\ ApiOff
    /\ TestOff
    /\ files \in Folders
    /\ benchmark \in BOOLEAN
    /\ mpc = "spawn"
    /\ wst = [e \in DOMAIN files |-> "todo"]
    /\ wpos = [e \in DOMAIN files |-> 0]
    /\ chan = <<>>
    /\ senders = 1
    /\ cpc = "off"
    /\ sent = <<>>
    /\ ingested = <<>>
    /\ lock = "free"

\* std::thread::spawn(move || process_graph(post_rx)); process_graph starts
\* with ThreadGraph::new()
SpawnGraph ==
    /\ mpc = "spawn"
    /\ mpc' = "for_each"
    /\ cpc' = "recv"
    /\ tg' = new
    /\ UNCHANGED <<extVars, out, ntraverse, panicked, apiVars, testVars, files, benchmark,
                   wst, wpos, chan, senders, sent, ingested, lock>>

\* position of a shard in the listing
RECURSIVE IndexOf(_, _, _)
IndexOf(sq, x, k) == IF sq[k] = x THEN k ELSE IndexOf(sq, x, k + 1)

\* with BENCHMARK=1 the shards are processed one after the other, in order
MayStart(e) ==
    benchmark =>
        \A d \in entries :
            IndexOf(ShardOrder, d, 1) < IndexOf(ShardOrder, e, 1) => wst[d] = "done"

\* process_single_file(entry, post_tx.clone()) is entered: a Sender more
StartFile(e) ==
    /\ mpc = "for_each"
    /\ wst[e] = "todo"
    /\ MayStart(e)
    /\ wst' = [wst EXCEPT ![e] = "running"]
    /\ senders' = senders + 1
    /\ UNCHANGED <<extVars, tg, out, ntraverse, panicked, apiVars, testVars, files,
                   benchmark, mpc, wpos, chan, cpc, sent, ingested, lock>>

\* map_while(Result::ok) ends the iteration at the end of the file and at
\* the first line lines() fails to read
AtEnd(e) ==
    IF wpos[e] = Len(files[e]) THEN TRUE
    ELSE files[e][wpos[e] + 1].kind = "io_err"

\* a line that parses: post_tx.send(post)
SendPost_into_graph(e) ==
    /\ wst[e] = "running"
    /\ ~ AtEnd(e)
    /\ parse_line(files[e][wpos[e] + 1]) # {}
    /\ LET post == CHOOSE p \in parse_line(files[e][wpos[e] + 1]) : TRUE
       IN  /\ tg' = add_post(tg, post)
           /\ sent' = Append(sent, post)
           /\ ingested' = Append(ingested, post)
    /\ wpos' = [wpos EXCEPT ![e] = @ + 1]
    /\ UNCHANGED <<extVars, chan, out, ntraverse, panicked, apiVars, testVars, files,
                   benchmark, mpc, wst, senders, cpc, lock>>

SendPost(e) ==
    /\ wst[e] = "running"
    /\ ~ AtEnd(e)
    /\ parse_line(files[e][wpos[e] + 1]) # {}
    /\ LET post == CHOOSE p \in parse_line(files[e][wpos[e] + 1]) : TRUE
       IN  /\ chan' = Append(chan, post)
           /\ sent' = Append(sent, post)
    /\ wpos' = [wpos EXCEPT ![e] = @ + 1]
    /\ UNCHANGED <<extVars, tg, out, ntraverse, panicked, apiVars, testVars, files,
                   benchmark, mpc, wst, senders, cpc, ingested, lock>>

\* a line that does not parse: filter_map drops it
DropLine(e) ==
    /\ wst[e] = "running"
    /\ ~ AtEnd(e)
    /\ parse_line(files[e][wpos[e] + 1]) = {}
    /\ wpos' = [wpos EXCEPT ![e] = @ + 1]
    /\ UNCHANGED <<extVars, tg, out, ntraverse, panicked, apiVars, testVars, files,
                   benchmark, mpc, wst, chan, senders, cpc, sent, ingested,
                   lock>>

\* process_single_file returns: its Sender is dropped
FinishFile(e) ==
    /\ wst[e] = "running"
    /\ AtEnd(e)
    /\ wst' = [wst EXCEPT ![e] = "done"]
    /\ senders' = senders - 1
    /\ UNCHANGED <<extVars, tg, out, ntraverse, panicked, apiVars, testVars, files,
                   benchmark, mpc, wpos, chan, cpc, sent, ingested, lock>>

\* for_each has returned: drop(post_tx)
DropTx_forgotten ==
    /\ mpc = "for_each"
    /\ \A e \in entries : wst[e] = "done"
    /\ mpc' = "join"
    /\ UNCHANGED <<extVars, senders, tg, out, ntraverse, panicked, apiVars, testVars, files,
                   benchmark, wst, wpos, chan, cpc, sent, ingested, lock>>

DropTx ==
    /\ mpc = "for_each"
    /\ \A e \in entries : wst[e] = "done"
    /\ mpc' = "join"
    /\ senders' = senders - 1
    /\ UNCHANGED <<extVars, tg, out, ntraverse, panicked, apiVars, testVars, files,
                   benchmark, wst, wpos, chan, cpc, sent, ingested, lock>>

\* process_graph, one turn of the loop: rx.recv() yields a Post and
\* threadgraph.add_post(thread) adds it
RecvAddPost ==
    /\ cpc = "recv"
    /\ chan # <<>>
    /\ tg' = add_post(tg, Head(chan))
    /\ ingested' = Append(ingested, Head(chan))
    /\ chan' = Tail(chan)
    /\ UNCHANGED <<extVars, out, ntraverse, panicked, apiVars, testVars, files, benchmark,
                   mpc, wst, wpos, senders, cpc, sent, lock>>

\* process_graph: rx.recv() yields Err, the channel being empty and every
\* Sender dropped; the loop ends and the graph is returned
RecvDisconnected_on_empty ==
    /\ cpc = "recv"
    /\ chan = <<>>
    /\ cpc' = "returned"
    /\ UNCHANGED <<extVars, tg, out, ntraverse, panicked, apiVars, testVars, files,
                   benchmark, mpc, wst, wpos, chan, senders, sent, ingested,
                   lock>>

RecvDisconnected ==
    /\ cpc = "recv"
    /\ chan = <<>>
    /\ senders = 0
    /\ cpc' = "returned"
    /\ UNCHANGED <<extVars, tg, out, ntraverse, panicked, apiVars, testVars, files,
                   benchmark, mpc, wst, wpos, chan, senders, sent, ingested,
                   lock>>

\* graph_handle.join().unwrap()
Join ==
    /\ mpc = "join"
    /\ cpc = "returned"
    /\ mpc' = "traverse"
    /\ UNCHANGED <<extVars, tg, out, ntraverse, panicked, apiVars, testVars, files,
                   benchmark, wst, wpos, chan, senders, cpc, sent, ingested,
                   lock>>

\* threadgraph.traverse(), the value get_threads returns
SenderTraverse ==
    /\ mpc = "traverse"
    /\ out' = traverse(tg)
    /\ ntraverse' = ntraverse + 1
    /\ mpc' = "done"
    /\ UNCHANGED <<extVars, tg, panicked, apiVars, testVars, files, benchmark, wst, wpos,
                   chan, senders, cpc, sent, ingested, lock>>

Worker(e) == StartFile(e) \/ SendPost(e) \/ DropLine(e) \/ FinishFile(e)
Consumer == RecvAddPost \/ RecvDisconnected
Caller == SpawnGraph \/ DropTx \/ Join \/ SenderTraverse

NextSender ==
    \/ SpawnGraph
    \/ \E e \in entries : StartFile(e)
    \/ \E e \in entries : SendPost(e)
    \/ \E e \in entries : DropLine(e)
    \/ \E e \in entries : FinishFile(e)
    \/ DropTx
    \/ RecvAddPost
    \/ RecvDisconnected
    \/ Join
    \/ SenderTraverse

SpecSender == InitSender /\ [][NextSender]_vars

\* every thread that can take a step eventually takes one
FairSender ==
    /\ SpecSender
    /\ WF_vars(Caller)
    /\ WF_vars(Consumer)
    /\ \A e \in Shards : WF_vars(e \in entries /\ Worker(e))

(***************************************************************************)
(* SpecParallel: get_threads of experimental/parallel.rs: one rayon task   *)
(* per shard, every parsed Post added under the graph's Mutex              *)
(***************************************************************************)
InitParallel ==
    /\ PostsOff
    /\ MainOff /\ WriterOff /\ TextOff /\ EquivOff
    /\ tg = new
    /\ out = <<>>
    /\ ntraverse = 0
    /\ panicked = FALSE
    /\ ApiOff
    /\ TestOff
    /\ files \in Folders
    /\ benchmark = FALSE
    /\ mpc = "for_each"
    /\ wst = [e \in DOMAIN files |-> "todo"]
    /\ wpos = [e \in DOMAIN files |-> 0]
    /\ chan = <<>>
    /\ senders = 0
    /\ cpc = "off"
    /\ sent = <<>>
    /\ ingested = <<>>
    /\ lock = "free"

\* the closure of par_iter().for_each starts on a shard
ParStart(e) ==
    /\ mpc = "for_each"
    /\ wst[e] = "todo"
    /\ wst' = [wst EXCEPT ![e] = "running"]
    /\ UNCHANGED <<extVars, tg, out, ntraverse, panicked, apiVars, testVars, files,
                   benchmark, mpc, wpos, chan, senders, cpc, sent, ingested, lock>>

HasLine(e) == wst[e] = "running" /\ wpos[e] < Len(files[e])

\* if let Ok(line) = line: a line that cannot be read is passed over
ParSkipIoErr(e) ==
    /\ HasLine(e)
    /\ files[e][wpos[e] + 1].kind = "io_err"
    /\ wpos' = [wpos EXCEPT ![e] = @ + 1]
    /\ UNCHANGED <<extVars, tg, out, ntraverse, panicked, apiVars, testVars, files,
                   benchmark, mpc, wst, chan, senders, cpc, sent, ingested, lock>>

\* serde_json::from_str(&line).unwrap() on a line serde_json rejects
ParPanic(e) ==
    /\ HasLine(e)
    /\ files[e][wpos[e] + 1].kind = "malformed"
    /\ wst' = [wst EXCEPT ![e] = "panicked"]
    /\ panicked' = TRUE
    /\ UNCHANGED <<extVars, tg, out, ntraverse, apiVars, testVars, files, benchmark, mpc,
                   wpos, chan, senders, cpc, sent, ingested, lock>>

\* the line parses: threadgraph.lock().unwrap()
ParLock(e) ==
    /\ HasLine(e)
    /\ files[e][wpos[e] + 1].kind = "json"
    /\ lock = "free"
    /\ lock' = e
    /\ UNCHANGED <<extVars, tg, out, ntraverse, panicked, apiVars, testVars, files,
                   benchmark, mpc, wst, wpos, chan, senders, cpc, sent, ingested>>

\* graph.add_post(thread.clone()); the guard is dropped at the end of the block
ParAddPost(e) ==
    /\ lock = e
    /\ LET post == from_json_struct(files[e][wpos[e] + 1].json)
       IN  /\ tg' = add_post(tg, post)
           /\ ingested' = Append(ingested, post)
    /\ wpos' = [wpos EXCEPT ![e] = @ + 1]
    /\ lock' = "free"
    /\ UNCHANGED <<extVars, out, ntraverse, panicked, apiVars, testVars, files, benchmark,
                   mpc, wst, chan, senders, cpc, sent>>

\* reader.lines() is exhausted
ParFinish(e) ==
    /\ wst[e] = "running"
    /\ wpos[e] = Len(files[e])
    /\ wst' = [wst EXCEPT ![e] = "done"]
    /\ UNCHANGED <<extVars, tg, out, ntraverse, panicked, apiVars, testVars, files,
                   benchmark, mpc, wpos, chan, senders, cpc, sent, ingested, lock>>

\* for_each has returned: threadgraph.lock().unwrap() and traverse()
ParTraverse ==
    /\ mpc = "for_each"
    /\ \A e \in entries : wst[e] = "done"
    /\ lock = "free"
    /\ out' = traverse(tg)
    /\ ntraverse' = ntraverse + 1
    /\ mpc' = "done"
    /\ UNCHANGED <<extVars, tg, panicked, apiVars, testVars, files, benchmark, wst, wpos,
                   chan, senders, cpc, sent, ingested, lock>>

\* a task has panicked and no task runs any more: for_each resumes the
\* panic in the caller and get_threads returns nothing
ParUnwind ==
    /\ mpc = "for_each"
    /\ panicked
    /\ \A e \in entries : wst[e] # "running"
    /\ mpc' = "panicked"
    /\ UNCHANGED <<extVars, tg, out, ntraverse, panicked, apiVars, testVars, files,
                   benchmark, wst, wpos, chan, senders, cpc, sent, ingested, lock>>

NextParallel ==
    \/ \E e \in entries : ParStart(e)
    \/ \E e \in entries : ParSkipIoErr(e)
    \/ \E e \in entries : ParPanic(e)
    \/ \E e \in entries : ParLock(e)
    \/ \E e \in entries : ParAddPost(e)
    \/ \E e \in entries : ParFinish(e)
    \/ ParTraverse
    \/ ParUnwind

SpecParallel == InitParallel /\ [][NextParallel]_vars

(***************************************************************************)
(* Properties of the ThreadGraph API (Spec)                                *)
(***************************************************************************)

\* C2: re-inserting a Post whose id already has a node creates no second
\* node for the id, and afterwards the payload stored at the id's index is
\* the Post of the later insertion.
C2_LastWriteWins ==
    last.op \in {"add_node", "add_post"} =>
        /\ Count(tg.graph.nodes, last.post.id) = 1
        /\ tg.allthreads[tg.node_map[last.post.id]] = last.post

\* C3: a parent id P that edges reference and that was never inserted as a
\* record of its own (nor passed to add_threads by a caller) has exactly one
\* node, with empty pagetext, is in the tracked roots exactly once, and
\* traverse returns a pair whose root id is P.
IsPlaceholderParent(P) ==
    /\ P \in DOMAIN tg.node_map
    /\ P \notin records
    /\ tg.node_map[P] \notin marked
    /\ \E e \in EdgeSet(tg) : e[1] = tg.node_map[P]

C3_PlaceholderRoot ==
    \A P \in DOMAIN tg.node_map :
        IsPlaceholderParent(P) =>
            /\ Count(tg.graph.nodes, P) = 1
            /\ tg.allthreads[tg.node_map[P]].pagetext = ""
            /\ Count(tg.threads, tg.node_map[P]) = 1
            /\ P \in RootIds(traverse(tg))

C3_Witness ==
    \E P \in DOMAIN tg.node_map :
        /\ IsPlaceholderParent(P)
        /\ Cardinality({k \in 1..Len(tg.graph.edges) :
                            tg.graph.edges[k][1] = tg.node_map[P]}) >= 2
        /\ Cardinality({e[2] : e \in {d \in EdgeSet(tg) : d[1] = tg.node_map[P]}}) >= 2

\* C5: traverse returns one pair per entry of the tracked roots; the pair of
\* root r carries r's id, r's text first, the text of every node reachable
\* from r exactly once, each node after a node that has an edge to it, and
\* nothing of an unreachable node.
C5_TraversePreorder ==
    last.op = "traverse" =>
        /\ Len(out) = Len(tg.threads)
        /\ \A i \in 1..Len(tg.threads) :
              LET start == tg.threads[i]
                  order == dfs_order(tg, start)
              IN  /\ out[i][1] = tg.graph.nodes[start]
                  /\ out[i][2] = [k \in 1..Len(order) |->
                                     tg.allthreads[order[k]].pagetext]
                  /\ Len(out[i][2]) = Cardinality(Reachable(tg, start))
                  /\ out[i][2][1] = tg.allthreads[start].pagetext
                  /\ order[1] = start
                  /\ Range(order) = Reachable(tg, start)
                  /\ \A k \in 2..Len(order) :
                        \E j \in 1..(k - 1) : <<order[j], order[k]>> \in EdgeSet(tg)

C5_Witness ==
    /\ last.op = "traverse"
    /\ \E i \in 1..Len(out) : Len(out[i][2]) >= 3
    /\ Len(tg.graph.edges) > Cardinality(EdgeSet(tg))

\* C6: after traverse returns, node_map, the payload vector, the tracked
\* roots and the graph are empty, and a second traverse returns no threads.
C6_TraverseDrains ==
    last.op = "traverse" =>
        /\ tg = new
        /\ (ntraverse >= 2 => out = <<>>)

(***************************************************************************)
(* Properties of test_functional_graph (SpecTest)                          *)
(***************************************************************************)
\* what a set S of posts determines, whatever the order: the edges
\* parent -> reply of the posts that are no thread, the roots (the threads
\* and the parents that no post of S has as its id), and what the edges
\* reach from an id
EdgesOf(S) == {<<p.parent_post_id, p.id>> : p \in {q \in S : ~ q.is_thread}}

RootsOf(S) ==
    {p.id : p \in {q \in S : q.is_thread}} \cup
    {p.parent_post_id : p \in {q \in S : /\ ~ q.is_thread
                                          /\ \A r \in S : r.id # q.parent_post_id}}

RECURSIVE ReachOf(_, _)
ReachOf(S, I) ==
    LET J == I \cup {e[2] : e \in {d \in EdgesOf(S) : d[1] \in I}}
    IN  IF J = I THEN I ELSE ReachOf(S, J)

IdOf(g, idx) == g.graph.nodes[idx]

\* C1: the edge set, the set of tracked roots and the set of nodes reachable
\* from each root that the test's insertion leaves are those the set of
\* posts determines: they are the same for every order of the posts.
C1_OrderIndependent ==
    tpc = "done" =>
        LET S == Range(posts)
        IN  /\ {<<IdOf(tg, e[1]), IdOf(tg, e[2])>> : e \in EdgeSet(tg)} = EdgesOf(S)
            /\ {IdOf(tg, r) : r \in Range(tg.threads)} = RootsOf(S)
            /\ RootIds(out) = RootsOf(S)
            /\ \A r \in Range(tg.threads) :
                  {IdOf(tg, n) : n \in Reachable(tg, r)} = ReachOf(S, {IdOf(tg, r)})

\* a reply went in before its parent, which is itself a reply, and a parent
\* without a record was synthesized
C1_Witness ==
    /\ tpc = "done"
    /\ \E i, j \in 1..Len(posts) :
          /\ i < j
          /\ posts[i].parent_post_id = posts[j].id
          /\ ~ posts[j].is_thread
    /\ Len(tg.graph.nodes) > Cardinality({p.id : p \in Range(posts)})

(***************************************************************************)
(* Properties of get_threads (SpecSender, FairSender, SpecParallel)        *)
(***************************************************************************)
\* the Posts of a sequence of lines, in order
RECURSIVE PostsOfLines(_)
PostsOfLines(ls) ==
    IF ls = <<>> THEN <<>>
    ELSE LET h == parse_line(Head(ls))
         IN  (IF h = {} THEN <<>> ELSE <<CHOOSE p \in h : TRUE>>)
             \o PostsOfLines(Tail(ls))

\* the lines of a shard that lines() reads before it first fails
RECURSIVE Readable(_)
Readable(ls) ==
    IF ls = <<>> \/ Head(ls).kind = "io_err" THEN <<>>
    ELSE <<Head(ls)>> \o Readable(Tail(ls))

\* how often Post p is among the lines of the shards E of folder f
RECURSIVE CountIn(_, _, _)
CountIn(f, p, E) ==
    IF E = {} THEN 0
    ELSE LET e == CHOOSE x \in E : TRUE
         IN  Count(PostsOfLines(f[e]), p) + CountIn(f, p, E \ {e})

AllPosts == UNION {Range(PostsOfLines(files[e])) : e \in entries}

\* the folder as far as lines() reads it: each shard up to its first failure
ReadableFiles == [e \in entries |-> Readable(files[e])]

\* add_post over a sequence of Posts, from the empty graph
RECURSIVE Ingest(_, _)
Ingest(g, sq) == IF sq = <<>> THEN g ELSE Ingest(add_post(g, Head(sq)), Tail(sq))

\* every line of the folder is a record, and no id has two records
CleanFolder ==
    /\ \A e \in entries : \A k \in 1..Len(files[e]) : files[e][k].kind = "json"
    /\ \A p \in AllPosts :
          /\ CountIn(files, p, entries) = 1
          /\ \A q \in AllPosts : q.id = p.id => q = p

\* C4: for a folder of thread roots, replies and replies to a parent without
\* a record, get_threads returns exactly one thread per thread root and one
\* per absent parent and no other; a thread starts with its root's text (the
\* empty string for an absent parent) and holds the texts of the root's
\* transitive replies.
C4_ThreadsOfFolder ==
    (mpc = "done" /\ CleanFolder) =>
        LET S == AllPosts
        IN  /\ RootIds(out) = RootsOf(S)
            /\ \A r \in RootsOf(S) :
                  Cardinality({i \in 1..Len(out) : out[i][1] = r}) = 1
            /\ \A i \in 1..Len(out) :
                  LET r == out[i][1]
                      own == {p \in S : p.id = r}
                      replies == {p \in S : p.id \in ReachOf(S, {r}) \ {r}}
                  IN  /\ out[i][2][1] =
                           (IF own = {} THEN ""
                            ELSE (CHOOSE p \in own : TRUE).pagetext)
                      /\ Len(out[i][2]) = 1 + Cardinality(replies)
                      /\ Range(Tail(out[i][2])) = {p.pagetext : p \in replies}

\* C7: within get_threads the ThreadGraph changes only in a turn of
\* process_graph's loop, which takes the head of the channel; the steps of
\* the parser workers and of the caller leave the graph as it is.
C7_SingleWriter ==
    [][tg' # tg =>
          /\ cpc = "recv" /\ cpc' = "recv"
          /\ chan # <<>> /\ chan' = Tail(chan)
          /\ tg' = add_post(tg, Head(chan))
          /\ wpos' = wpos /\ wst' = wst /\ mpc' = mpc /\ sent' = sent]_vars

\* two parser workers are in their files while the consumer has already
\* added a Post and more Posts wait in the channel
C7_Witness ==
    /\ \A e \in Shards : e \in entries /\ wst[e] = "running"
    /\ ingested # <<>>
    /\ chan # <<>>

\* C8: traverse is called at most once, and once get_threads is done exactly
\* once; when it is called every Sender is dropped, the channel is empty,
\* every worker is done, and the graph holds exactly the Posts that were
\* sent, each added once, in sending order; nothing is in flight unaccounted
\* before, and nothing is added after.
C8_TraverseAfterDrain ==
    /\ ntraverse <= 1
    /\ (mpc = "done" => ntraverse = 1)
    /\ (cpc # "off" => sent = ingested \o chan)
    /\ (ntraverse = 1 =>
          /\ senders = 0
          /\ chan = <<>>
          /\ cpc = "returned"
          /\ \A e \in entries : wst[e] = "done"
          /\ ingested = sent
          /\ \A p \in AllPosts :
                Count(ingested, p) = CountIn(ReadableFiles, p, entries)
          /\ tg = Ingest(new, sent)
          /\ out = traverse(tg))

C8_Witness ==
    /\ mpc = "done"
    /\ \A e \in Shards : e \in entries /\ PostsOfLines(files[e]) # <<>>
    /\ Len(ingested) >= 3

C10_MalformedDropped ==
    /\ ~ panicked
    /\ mpc # "panicked"
    /\ (mpc = "done" =>
          \A p \in AllPosts : Count(ingested, p) = CountIn(files, p, entries))

(***************************************************************************)
(* SpecMain: main of main.rs: one process_folder per topic folder under    *)
(* par_iter().for_each, every output String sent on one channel, and the   *)
(* writer task write_jsonl_receiver (utils/writer.rs) draining it          *)
(***************************************************************************)
\* the number of topic folders under the input folder
MaxFolders == 3

\* what the pipeline of one folder does: it sends nrec output records and
\* then returns, or panics (an unwrap or expect of get_threads or process)
PlanUniverse ==
    { [nrec |-> 0, panics |-> FALSE], [nrec |-> 1, panics |-> FALSE],
      [nrec |-> 0, panics |-> TRUE],  [nrec |-> 1, panics |-> TRUE] }

\* rayon::current_num_threads()
ThreadCounts == {1, 2}

Max(a, b) == IF a >= b THEN a ELSE b

\* the folders lo..hi as rayon's bridge splits them for for_each: a range is
\* halved while the splitter allows it (splits left, or the job was stolen
\* by another thread), and a range that is not halved is folded
\* sequentially by one task. Yields every set of ranges that can result.
RECURSIVE LeafSets(_, _, _, _, _)
LeafSets(lo, hi, splits, migrated, threads) ==
    LET len == hi - lo + 1
        mid == lo + (len \div 2) - 1
        s2  == IF migrated THEN Max(threads, splits \div 2) ELSE splits \div 2
        steal == IF threads > 1 THEN BOOLEAN ELSE {FALSE}
    IN  IF len = 0 THEN {{}}
        ELSE IF len \div 2 < 1 \/ ~ (migrated \/ splits > 0) THEN {{<<lo, hi>>}}
        ELSE { L \cup R :
                 L \in LeafSets(lo, mid, s2, FALSE, threads),
                 R \in UNION { LeafSets(mid + 1, hi, s2, m, threads) : m \in steal } }

\* the String process_folder sends for record k of folder f, as its bytes
Rec(f, k) == << <<f, k, "{">>, <<f, k, "}">> >>

Newline == "\n"

\* format!("{}\n", data).as_bytes()
LineOf(str) == str \o <<Newline>>

InitMain ==
    /\ PostsOff
    /\ WriterOff /\ TextOff /\ EquivOff
    /\ tg = new /\ out = <<>> /\ ntraverse = 0 /\ panicked = FALSE
    /\ ApiOff /\ TestOff /\ PipeOff
    /\ low_memory \in BOOLEAN
    /\ all_folders \in UNION {[1..n -> PlanUniverse] : n \in 0..MaxFolders}
    /\ leaves \in UNION { LeafSets(1, Len(all_folders), t, FALSE, t) : t \in ThreadCounts }
    /\ fst = [f \in DOMAIN all_folders |-> "todo"]
    /\ fsent = [f \in DOMAIN all_folders |-> 0]
    /\ data_chan = <<>>
    /\ data_senders = 1
    /\ mainpc = "for_each"
    /\ wrpc = "spawned"
    /\ wrbuf = <<>>
    /\ wrfile = <<>>
    /\ wrrecv = <<>>

LeafOf(f) == CHOOSE l \in leaves : l[1] <= f /\ f <= l[2]

\* the task of f's range has reached f: the folders before it returned
FolderReached(f) ==
    \A g \in LeafOf(f)[1]..(f - 1) : fst[g] = "done"

\* the task of range l is over: its last folder returned or one panicked
LeafOver(l) ==
    \/ fst[l[2]] = "done"
    \/ \E g \in l[1]..l[2] : fst[g] = "panicked"

\* for_each calls process_folder(folder, .., data_tx.clone())
StartFolder(f) ==
    /\ mainpc = "for_each"
    /\ fst[f] = "todo"
    /\ FolderReached(f)
    /\ fst' = [fst EXCEPT ![f] = "running"]
    /\ data_senders' = data_senders + 1
    /\ UNCHANGED <<postVars, coreVars, writerVars, textVars, equivVars, low_memory, all_folders,
                   leaves,
                   fsent, data_chan, mainpc, wrpc, wrbuf, wrfile, wrrecv>>

\* sender_thread_posts: send(serde_json::to_string(&threadpost))
SendRecord(f) ==
    /\ fst[f] = "running"
    /\ fsent[f] < all_folders[f].nrec
    /\ data_chan' = Append(data_chan, Rec(f, fsent[f] + 1))
    /\ fsent' = [fsent EXCEPT ![f] = @ + 1]
    /\ UNCHANGED <<postVars, coreVars, writerVars, textVars, equivVars, low_memory, all_folders,
                   leaves,
                   fst, data_senders, mainpc, wrpc, wrbuf, wrfile, wrrecv>>

\* process_folder returns; its Sender clone is dropped
FolderDone(f) ==
    /\ fst[f] = "running"
    /\ fsent[f] = all_folders[f].nrec
    /\ ~ all_folders[f].panics
    /\ fst' = [fst EXCEPT ![f] = "done"]
    /\ data_senders' = data_senders - 1
    /\ UNCHANGED <<postVars, coreVars, writerVars, textVars, equivVars, low_memory, all_folders,
                   leaves,
                   fsent, data_chan, mainpc, wrpc, wrbuf, wrfile, wrrecv>>

\* process_folder panics; the unwinding leaves the task of its range and
\* drops the Sender clone
FolderPanic(f) ==
    /\ fst[f] = "running"
    /\ fsent[f] = all_folders[f].nrec
    /\ all_folders[f].panics
    /\ fst' = [fst EXCEPT ![f] = "panicked"]
    /\ data_senders' = data_senders - 1
    /\ UNCHANGED <<postVars, coreVars, writerVars, textVars, equivVars, low_memory, all_folders,
                   leaves,
                   fsent, data_chan, mainpc, wrpc, wrbuf, wrfile, wrrecv>>

\* the writer task when the process ends: an unfinished task is cut off
WriterAtExit(w) == IF w \in {"done", "failed"} THEN w ELSE "killed"

\* for_each returns: every task is over and none panicked
ForEachReturn ==
    /\ mainpc = "for_each"
    /\ \A l \in leaves : LeafOver(l)
    /\ \A f \in DOMAIN all_folders : fst[f] # "panicked"
    /\ mainpc' = "drop"
    /\ UNCHANGED <<postVars, coreVars, writerVars, textVars, equivVars, low_memory, all_folders,
                   leaves,
                   fst, fsent, data_chan, data_senders, wrpc, wrbuf, wrfile, wrrecv>>

\* for_each resumes the panic of a task once every task is over: main
\* unwinds (dropping data_tx) and the process ends, the writer with it
ForEachUnwind ==
    /\ mainpc = "for_each"
    /\ \A l \in leaves : LeafOver(l)
    /\ \E f \in DOMAIN all_folders : fst[f] = "panicked"
    /\ mainpc' = "panicked"
    /\ data_senders' = data_senders - 1
    /\ wrpc' = WriterAtExit(wrpc)
    /\ UNCHANGED <<postVars, coreVars, writerVars, textVars, equivVars, low_memory, all_folders,
                   leaves,
                   fst, fsent, data_chan, wrbuf, wrfile, wrrecv>>

\* drop(data_tx)
DropDataTx ==
    /\ mainpc = "drop"
    /\ data_senders' = data_senders - 1
    /\ mainpc' = "join_progress"
    /\ UNCHANGED <<postVars, coreVars, writerVars, textVars, equivVars, low_memory, all_folders,
                   leaves,
                   fst, fsent, data_chan, wrpc, wrbuf, wrfile, wrrecv>>

\* progress_thread.join(), the totals are printed and main returns Ok(()):
\* the process ends; nothing waits for the task given to rayon::spawn
MainReturn ==
    /\ mainpc = "join_progress"
    /\ mainpc' = "exited"
    /\ wrpc' = WriterAtExit(wrpc)
    /\ UNCHANGED <<postVars, coreVars, writerVars, textVars, equivVars, low_memory, all_folders,
                   leaves,
                   fst, fsent, data_chan, data_senders, wrbuf, wrfile, wrrecv>>

\* File::create(all.jsonl) and BufWriter::with_capacity
WriterCreate ==
    /\ wrpc = "spawned"
    /\ wrpc' = "loop"
    /\ UNCHANGED <<postVars, coreVars, writerVars, textVars, equivVars, low_memory, all_folders,
                   leaves,
                   fst, fsent, data_chan, data_senders, mainpc, wrbuf, wrfile,
                   wrrecv>>

\* one turn of the loop: recv yields the oldest String and write_all gives
\* its line to the BufWriter, which first writes out what it holds when
\* the line does not fit
WriterRecv ==
    /\ wrpc = "loop"
    /\ data_chan # <<>>
    /\ wrrecv' = Append(wrrecv, Head(data_chan))
    /\ data_chan' = Tail(data_chan)
    /\ \E fits \in BOOLEAN :
          IF fits
          THEN wrbuf' = wrbuf \o LineOf(Head(data_chan)) /\ wrfile' = wrfile
          ELSE wrbuf' = LineOf(Head(data_chan)) /\ wrfile' = wrfile \o wrbuf
    /\ UNCHANGED <<postVars, coreVars, writerVars, textVars, equivVars, low_memory, all_folders,
                   leaves,
                   fst, fsent, data_senders, mainpc, wrpc>>

\* recv fails on the empty channel with no Sender left; a finish that does
\* not wait for the Senders to be dropped
WriterFinish_on_empty ==
    /\ wrpc = "loop"
    /\ data_chan = <<>>
    /\ wrfile' = wrfile \o wrbuf
    /\ wrbuf' = <<>>
    /\ wrpc' = "done"
    /\ UNCHANGED <<postVars, coreVars, writerVars, textVars, equivVars, low_memory, all_folders,
                   leaves,
                   fst, fsent, data_chan, data_senders, mainpc, wrrecv>>

\* recv fails: the channel is empty and every Sender is dropped; the loop
\* ends, writer.flush() and Ok(())
WriterFinish ==
    /\ wrpc = "loop"
    /\ data_chan = <<>>
    /\ data_senders = 0
    /\ wrfile' = wrfile \o wrbuf
    /\ wrbuf' = <<>>
    /\ wrpc' = "done"
    /\ UNCHANGED <<postVars, coreVars, writerVars, textVars, equivVars, low_memory, all_folders,
                   leaves,
                   fst, fsent, data_chan, data_senders, mainpc, wrrecv>>

FolderTask(f) ==
    StartFolder(f) \/ SendRecord(f) \/ FolderDone(f) \/ FolderPanic(f)

\* File::create(output_path).await? fails: the task returns the Err, which
\* main prints
WriterCreateFail ==
    /\ wrpc = "spawned"
    /\ wrpc' = "failed"
    /\ UNCHANGED <<postVars, coreVars, writerVars, textVars, equivVars, low_memory, all_folders,
                   leaves, fst, fsent, data_chan, data_senders, mainpc, wrbuf,
                   wrfile, wrrecv>>

\* write_all(..).await? fails on the String just received: the task
\* returns the Err and the BufWriter is dropped with what it holds, written
\* out or not
WriterWriteFail ==
    /\ wrpc = "loop"
    /\ data_chan # <<>>
    /\ wrrecv' = Append(wrrecv, Head(data_chan))
    /\ data_chan' = Tail(data_chan)
    /\ wrpc' = "failed"
    /\ wrbuf' = <<>>
    /\ \E flushed \in BOOLEAN :
          wrfile' = IF flushed THEN wrfile \o wrbuf ELSE wrfile
    /\ UNCHANGED <<postVars, coreVars, writerVars, textVars, equivVars, low_memory, all_folders,
                   leaves, fst, fsent, data_senders, mainpc>>

WriterTask ==
    WriterCreate \/ WriterRecv \/ WriterFinish \/ WriterCreateFail \/ WriterWriteFail

MainThread == ForEachReturn \/ ForEachUnwind \/ DropDataTx \/ MainReturn

NextMain ==
    \/ \E f \in DOMAIN all_folders : FolderTask(f)
    \/ WriterTask
    \/ MainThread

SpecMain == InitMain /\ [][NextMain]_vars

\* the bytes of the lines of a sequence of Strings
RECURSIVE LinesOf(_)
LinesOf(strs) ==
    IF strs = <<>> THEN <<>> ELSE LineOf(Head(strs)) \o LinesOf(Tail(strs))

\* for_each is over, by return or by unwinding
ForEachOver == mainpc \in {"drop", "join_progress", "exited", "panicked"}

\* C11: a panic of one folder's pipeline aborts that folder's task only:
\* once for_each is over, every folder whose own pipeline does not panic
\* was processed to completion and every record of it was sent to the writer.
C11_PanicIsolated ==
    ForEachOver =>
        \A f \in DOMAIN all_folders :
            ~ all_folders[f].panics =>
                fst[f] = "done" /\ fsent[f] = all_folders[f].nrec

MaxRecords == 4

\* 100 * 1024_usize.pow(2)
MAX_BYTES_PER_FILE == 104857600

\* usize::div_ceil
div_ceil(a, b) ==
    LET d == a \div b
        r == a % b
    IN  IF r > 0 THEN d + 1 ELSE d

\* get_chunk_size with a division that rounds down
get_chunk_size_floor(b, d) ==
    LET num_files  == div_ceil(b, MAX_BYTES_PER_FILE)
        num_splits == Max(num_files, 1)
    IN  Len(d) \div num_splits

get_chunk_size(b, d) ==
    LET num_files  == div_ceil(b, MAX_BYTES_PER_FILE)
        num_splits == Max(num_files, 1)
    IN  div_ceil(Len(d), num_splits)

\* slice.par_chunks(n): the number of chunks, and chunk i (from 0)
num_chunks(d, n) == div_ceil(Len(d), n)

chunk(d, n, i) ==
    SubSeq(d, i * n + 1, IF (i + 1) * n < Len(d) THEN (i + 1) * n ELSE Len(d))

\* the content sizes (raw_content.len()) a ThreadPost is given here
SizeUniverse ==
    {1, MAX_BYTES_PER_FILE \div 2, MAX_BYTES_PER_FILE, MAX_BYTES_PER_FILE + 1}

RECURSIVE TotalBytes(_)
TotalBytes(d) == IF d = <<>> THEN 0 ELSE Head(d) + TotalBytes(Tail(d))

\* the bytes argument: the total the caller counted, or any other number
BytesUniverse ==
    {0, 1, MAX_BYTES_PER_FILE, MAX_BYTES_PER_FILE + 1, 3 * MAX_BYTES_PER_FILE}

InitWriter ==
    /\ PostsOff
    /\ MainOff /\ TextOff /\ EquivOff
    /\ tg = new /\ out = <<>> /\ ntraverse = 0 /\ panicked = FALSE
    /\ ApiOff /\ TestOff /\ PipeOff
    /\ data \in SeqsUpTo(SizeUniverse, MaxRecords)
    /\ bytes \in {TotalBytes(data)} \cup BytesUniverse
    /\ chunk_size = -1
    /\ shard_files = <<>>
    /\ wjpc = "start"

\* let chunk_size = get_chunk_size(bytes, &data); if data.len() <= chunk_size
GetChunkSize ==
    /\ wjpc = "start"
    /\ chunk_size' = get_chunk_size(bytes, data)
    /\ wjpc' = IF Len(data) <= chunk_size' THEN "single" ELSE "chunks"
    /\ UNCHANGED <<postVars, coreVars, mainVars, textVars, equivVars, data, bytes, shard_files>>

\* the first branch: every record goes to {stem}_0
WriteSingle ==
    /\ wjpc = "single"
    /\ shard_files' = (0 :> data)
    /\ wjpc' = "done"
    /\ UNCHANGED <<postVars, coreVars, mainVars, textVars, equivVars, data, bytes, chunk_size>>

\* the second branch: par_chunks(chunk_size).enumerate() writes chunk i to
\* {stem}_i, the chunks in any order
WriteChunk(i) ==
    /\ wjpc = "chunks"
    /\ i \in 0..(num_chunks(data, chunk_size) - 1)
    /\ i \notin DOMAIN shard_files
    /\ shard_files' = shard_files @@ (i :> chunk(data, chunk_size, i))
    /\ UNCHANGED <<postVars, coreVars, mainVars, textVars, equivVars, data, bytes, chunk_size,
                   wjpc>>

\* for_each returns once every chunk is written; Ok(())
WriteReturn ==
    /\ wjpc = "chunks"
    /\ DOMAIN shard_files = 0..(num_chunks(data, chunk_size) - 1)
    /\ wjpc' = "done"
    /\ UNCHANGED <<postVars, coreVars, mainVars, textVars, equivVars, data, bytes, chunk_size,
                   shard_files>>

NextWriter ==
    \/ GetChunkSize
    \/ WriteSingle
    \/ \E i \in 0..MaxRecords : WriteChunk(i)
    \/ WriteReturn

SpecWriter == InitWriter /\ [][NextWriter]_vars

\* ceil(a / b), by rounding the negated quotient down
Ceil(a, b) == -((-a) \div b)

\* C13: with B the total content bytes given as the bytes argument and M the
\* budget, the number of shard files written is ceil(B/M) when B > M and 1
\* otherwise, whatever the number of records and their sizes.
C13_ShardCount ==
    (wjpc = "done" /\ bytes = TotalBytes(data)) =>
        Cardinality(DOMAIN shard_files) =
            IF bytes > MAX_BYTES_PER_FILE THEN Ceil(bytes, MAX_BYTES_PER_FILE) ELSE 1

\* C14: no shard file holds more content than the budget M, unless it
\* consists of one record that alone exceeds M, also for uneven record sizes.
C14_ShardWithinBudget ==
    (wjpc = "done" /\ bytes = TotalBytes(data)) =>
        \A i \in DOMAIN shard_files :
            \/ TotalBytes(shard_files[i]) <= MAX_BYTES_PER_FILE
            \/ Len(shard_files[i]) = 1

\* C15: get_chunk_size(bytes, data) is ceil(len(data) / max(1, ceil(bytes /
\* MAX_BYTES_PER_FILE))) (1000 records and 300 MiB give 334); it is at least
\* 1 when data is not empty, and par_chunks is never given a chunk size of 0.
C15_ChunkSize ==
    /\ get_chunk_size(300 * 1024 * 1024, [k \in 1..1000 |-> 0]) = 334
    /\ chunk_size # -1 =>
          /\ chunk_size = Ceil(Len(data), Max(1, Ceil(bytes, MAX_BYTES_PER_FILE)))
          /\ data # <<>> => chunk_size >= 1
    /\ wjpc = "chunks" => chunk_size >= 1

C15_Witness ==
    /\ wjpc = "done"
    /\ Cardinality(DOMAIN shard_files) >= 2
    /\ Len(data) % Cardinality(DOMAIN shard_files) # 0
    /\ bytes > MAX_BYTES_PER_FILE

(***************************************************************************)
(* The text stage: globals.rs (the once-initialized regexes and tokenizer) *)
(* and utils/processing.rs (clean_text, process). A string is the sequence *)
(* of its characters.                                                      *)
(***************************************************************************)
\* the number of tokens a text is made of
MaxTokens == 4

\* \s of the regexes and char::is_whitespace of trim and split_whitespace
SpaceChars == {" ", "\n", "\t"}

\* the characters outside [\w\.-]
NotHandleChars == SpaceChars \cup {"=", "@", "#", ":", "/", ","}

\* the length of the longest run of characters of S that starts at s[i]
RECURSIVE RunIn(_, _, _)
RunIn(s, i, S) ==
    IF i > Len(s) \/ s[i] \notin S THEN 0 ELSE 1 + RunIn(s, i + 1, S)

\* the length of the longest run of characters outside S that starts at s[i]
RECURSIVE RunNotIn(_, _, _)
RunNotIn(s, i, S) ==
    IF i > Len(s) \/ s[i] \in S THEN 0 ELSE 1 + RunNotIn(s, i + 1, S)

\* MAIN_REGEX: -{2,}|={2,}|http\S+|(?:[\w\.-]+)?@\S+|#\S+
\* the length of its match that starts at s[i], 0 when there is none: the
\* first alternative that matches there, each repetition greedy
main_match(s, i) ==
    LET dash == RunIn(s, i, {"-"})
        eq   == RunIn(s, i, {"="})
        http == IF i + 3 <= Len(s) /\ SubSeq(s, i, i + 3) = <<"h", "t", "t", "p">>
                THEN RunNotIn(s, i + 4, SpaceChars) ELSE 0
        name == RunNotIn(s, i, NotHandleChars)
        at   == IF i + name <= Len(s) /\ s[i + name] = "@"
                THEN RunNotIn(s, i + name + 1, SpaceChars) ELSE 0
        hash == IF i <= Len(s) /\ s[i] = "#"
                THEN RunNotIn(s, i + 1, SpaceChars) ELSE 0
    IN  IF dash >= 2 THEN dash
        ELSE IF eq >= 2 THEN eq
        ELSE IF http >= 1 THEN 4 + http
        ELSE IF at >= 1 THEN name + 1 + at
        ELSE IF hash >= 1 THEN 1 + hash
        ELSE 0

\* MAIN_REGEX.replace_all(content, " ") from s[i] on
RECURSIVE replace_main(_, _)
replace_main(s, i) ==
    IF i > Len(s) THEN <<>>
    ELSE LET n == main_match(s, i)
         IN  IF n > 0 THEN <<" ">> \o replace_main(s, i + n)
             ELSE <<s[i]>> \o replace_main(s, i + 1)

\* SPACE_REGEX.replace_all(text, " ") from s[i] on: \s+ becomes one space
RECURSIVE replace_space(_, _)
replace_space(s, i) ==
    IF i > Len(s) THEN <<>>
    ELSE LET n == RunIn(s, i, SpaceChars)
         IN  IF n > 0 THEN <<" ">> \o replace_space(s, i + n)
             ELSE <<s[i]>> \o replace_space(s, i + 1)

\* str::trim
trim(s) ==
    LET lead == RunIn(s, 1, SpaceChars)
        rest == SubSeq(s, lead + 1, Len(s))
        keep == {k \in 1..Len(rest) : rest[k] \notin SpaceChars}
    IN  IF keep = {} THEN <<>>
        ELSE SubSeq(rest, 1, CHOOSE k \in keep : \A j \in keep : j <= k)

Panic(msg) == [kind |-> "panic", msg |-> msg]

Text(s) == [kind |-> "text", text |-> s]

\* clean_content with get_or_init in place of get().expect(..)
clean_content_lazy(text) ==
    Text(replace_space(replace_main(text, 1), 1))

\* globals::clean_content
clean_content(text) ==
    IF MAIN_REGEX = "unset" THEN Panic("Regex has not been initialized")
    ELSE IF SPACE_REGEX = "unset" THEN Panic("Regex has not been initialized")
    ELSE Text(replace_space(replace_main(text, 1), 1))

\* clean_text without the trim
clean_text_untrimmed(text) == clean_content(text)

\* processing::clean_text
clean_text(text) ==
    LET cleaned_text == clean_content(text)
    IN  IF cleaned_text.kind = "panic" THEN cleaned_text
        ELSE Text(trim(cleaned_text.text))

\* the pieces texts are made of here
TokenUniverse ==
    { <<"a">>, <<"-">>, <<"=">>, <<" ">>, <<"\n">>, <<"@">>, <<"#">>,
      <<"h", "t", "t", "p">> }

\* every text of up to n tokens
RECURSIVE Strings(_)
Strings(n) ==
    IF n = 0 THEN {<<>>}
    ELSE LET P == Strings(n - 1) IN P \cup {p \o t : p \in P, t \in TokenUniverse}

(***************************************************************************)
(* SpecClean: clean_text on one text, after init_regex (test_clean_text)   *)
(***************************************************************************)
InitClean ==
    /\ PostsOff
    /\ MainOff /\ WriterOff /\ EquivOff
    /\ tg = new /\ out = <<>> /\ ntraverse = 0 /\ panicked = FALSE
    /\ ApiOff /\ TestOff /\ PipeOff
    /\ MAIN_REGEX = "set" /\ SPACE_REGEX = "set" /\ TOKENIZER = "unset"
    /\ content \in {<<s>> : s \in Strings(MaxTokens)}
    /\ thread_id = "" /\ forum_name = "" /\ use_sentencepiece = FALSE
    /\ result = [kind |-> "none"]
    /\ tcalls = 0 /\ inits = <<>>

\* let result = utils::processing::clean_text(input)
CleanText ==
    /\ tcalls = 0
    /\ result' = clean_text(content[1])
    /\ tcalls' = 1
    /\ UNCHANGED <<postVars, coreVars, mainVars, writerVars, equivVars, MAIN_REGEX,
                   SPACE_REGEX, TOKENIZER, content, thread_id, forum_name,
                   use_sentencepiece, inits>>

NextClean == CleanText

SpecClean == InitClean /\ [][NextClean]_vars

\* s[i] is a separator: whitespace, or part of a run of two or more '-' or
\* of two or more '='
IsSeparator(s, i) ==
    \/ s[i] \in SpaceChars
    \/ /\ s[i] \in {"-", "="}
       /\ \/ i > 1 /\ s[i - 1] = s[i]
          \/ i < Len(s) /\ s[i + 1] = s[i]

\* the text without its separators, a single space between the pieces
RECURSIVE Separated(_, _, _, _)
Separated(s, i, gap, any) ==
    IF i > Len(s) THEN <<>>
    ELSE IF IsSeparator(s, i) THEN Separated(s, i + 1, TRUE, any)
    ELSE (IF gap /\ any THEN <<" ", s[i]>> ELSE <<s[i]>>)
         \o Separated(s, i + 1, FALSE, TRUE)

\* s holds no '@', no '#' and no "http": no URL, handle or hashtag
PlainText(s) ==
    \A i \in 1..Len(s) :
        /\ s[i] \notin {"@", "#"}
        /\ ~ (i + 3 <= Len(s) /\ SubSeq(s, i, i + 3) = <<"h", "t", "t", "p">>)

\* the examples of test_clean_text the claim cites
C20_Examples ==
    /\ clean_text(<<"h", "e", "l", "l", "o", "-", "-", "w", "o", "r", "l", "d">>) = Text(<<"h", "e", "l", "l", "o", " ", "w", "o", "r", "l", "d">>)
    /\ clean_text(<<"t", "o", "o", " ", " ", " ", " ", "m", "a", "n", "y", " ", " ", " ", " ", "s", "p", "a", "c", "e", "s">>) = Text(<<"t", "o", "o", " ", "m", "a", "n", "y", " ", "s", "p", "a", "c", "e", "s">>)
    /\ clean_text(<<"n", "o", "r", "m", "a", "l", "-", "d", "a", "s", "h">>) = Text(<<"n", "o", "r", "m", "a", "l", "-", "d", "a", "s", "h">>)
    /\ clean_text(<<"-", "-", "-">>) = Text(<<>>)

MaxTexts == 2

\* the number of calls made on the text stage
MaxCalls == 3

\* the loop of process: the cleaned texts, a newline before every text but
\* the first; texts that clean to nothing are left out with their newline
RECURSIVE join_nonempty(_, _)
join_nonempty(cont, i) ==
    IF i > Len(cont) THEN Text(<<>>)
    ELSE LET c == clean_text(cont[i])
             rest == join_nonempty(cont, i + 1)
         IN  IF c.kind = "panic" THEN c
             ELSE IF rest.kind = "panic" THEN rest
             ELSE IF c.text = <<>> THEN rest
             ELSE Text((IF i > 1 THEN <<Newline>> ELSE <<>>) \o c.text \o rest.text)

\* the loop of process from content[i] on: push '\n' when i > 0, then
\* push_str(&clean_text(text))
RECURSIVE join_cleaned(_, _)
join_cleaned(cont, i) ==
    IF i > Len(cont) THEN Text(<<>>)
    ELSE LET c == clean_text(cont[i])
             rest == join_cleaned(cont, i + 1)
         IN  IF c.kind = "panic" THEN c
             ELSE IF rest.kind = "panic" THEN rest
             ELSE Text((IF i > 1 THEN <<Newline>> ELSE <<>>) \o c.text \o rest.text)

\* a count of the whitespace characters, plus one
count_separators(s, i) ==
    Cardinality({k \in i..Len(s) : s[k] \in SpaceChars}) + 1

\* str::split_whitespace().count() from s[i] on
RECURSIVE split_whitespace_count(_, _)
split_whitespace_count(s, i) ==
    LET j == i + RunIn(s, i, SpaceChars)
        w == RunNotIn(s, j, SpaceChars)
    IN  IF w = 0 THEN 0 ELSE 1 + split_whitespace_count(s, j + w)

\* the number of ids of an Encoding: the tokenizer is an outside
\* collaborator, here one token per character that is no whitespace
encode_len(s) == Cardinality({k \in 1..Len(s) : s[k] \notin SpaceChars})

\* globals::tokenize
tokenize(text) ==
    IF TOKENIZER = "unset" THEN Panic("Tokenizer has not been initialized")
    ELSE [kind |-> "encoding", len |-> encode_len(text)]

\* processing::process
process(tid, cont, forum, use) ==
    LET cleaned_content == join_cleaned(cont, 1)
    IN  IF cleaned_content.kind = "panic" THEN cleaned_content
        ELSE LET enc == IF use THEN tokenize(cleaned_content.text)
                        ELSE [kind |-> "encoding",
                              len |-> split_whitespace_count(cleaned_content.text, 1)]
             IN  IF enc.kind = "panic" THEN enc
                 ELSE [kind |-> "post",
                       post |-> [length |-> enc.len,
                                 raw_content |-> cleaned_content.text,
                                 thread_id |-> tid,
                                 source |-> forum]]

HelloWorld == <<"h", "e", "l", "l", "o", "-", "-", "w", "o", "r", "l", "d">>

UserUrl == <<"@", "u", "s", "e", "r", " ", "h", "t", "t", "p", ":", "/", "/", "e", "x", "a", "m", "p", "l", "e", ".", "c", "o", "m">>

\* the texts of a thread
TextUniverse ==
    { HelloWorld, UserUrl, <<>>, <<"a", " ", "b">>, <<"a", "\n", "b">>,
      <<" ", " ">> }

\* the outcome of a call, with the name of the function called
Called(op, r) == [op |-> op] @@ r

InitProcess ==
    /\ PostsOff
    /\ MainOff /\ WriterOff /\ EquivOff
    /\ tg = new /\ out = <<>> /\ ntraverse = 0 /\ panicked = FALSE
    /\ ApiOff /\ TestOff /\ PipeOff
    /\ MAIN_REGEX = "unset" /\ SPACE_REGEX = "unset" /\ TOKENIZER = "unset"
    /\ content \in SeqsUpTo(TextUniverse, MaxTexts)
    /\ thread_id \in {"test123", "42"}
    /\ forum_name = "testforum"
    /\ use_sentencepiece \in BOOLEAN
    /\ result = Called("none", [kind |-> "none"])
    /\ tcalls = 0 /\ inits = <<>>

CanCallText == tcalls < MaxCalls

\* init_regex, its first statement: MAIN_REGEX.get_or_init
InitRegexMain ==
    /\ CanCallText
    /\ MAIN_REGEX = "unset"
    /\ MAIN_REGEX' = "set"
    /\ tcalls' = tcalls + 1
    /\ UNCHANGED <<postVars, coreVars, mainVars, writerVars, equivVars, SPACE_REGEX, TOKENIZER,
                   content, thread_id, forum_name, use_sentencepiece, inits, result>>

\* init_regex, its second statement: SPACE_REGEX.get_or_init
InitRegexSpace ==
    /\ CanCallText
    /\ MAIN_REGEX = "set"
    /\ SPACE_REGEX = "unset"
    /\ SPACE_REGEX' = "set"
    /\ tcalls' = tcalls + 1
    /\ UNCHANGED <<postVars, coreVars, mainVars, writerVars, equivVars, MAIN_REGEX, TOKENIZER,
                   content, thread_id, forum_name, use_sentencepiece, inits, result>>

\* init_tokenizer: the tokenizer loads or the unwrap panics; set fails on a
\* TOKENIZER that is set already
InitTokenizer(loads) ==
    /\ CanCallText
    /\ tcalls' = tcalls + 1
    /\ IF ~ loads
       THEN /\ result' = Called("init_tokenizer",
                                Panic("called Result::unwrap() on an Err value"))
            /\ UNCHANGED TOKENIZER
       ELSE IF TOKENIZER = "set"
       THEN /\ result' = Called("init_tokenizer", Panic("Unable to load tokenizer"))
            /\ UNCHANGED TOKENIZER
       ELSE /\ result' = Called("init_tokenizer", [kind |-> "unit"])
            /\ TOKENIZER' = "set"
    /\ UNCHANGED <<postVars, coreVars, mainVars, writerVars, equivVars, MAIN_REGEX, SPACE_REGEX,
                   content, thread_id, forum_name, use_sentencepiece, inits>>

\* a call of clean_content on one of the texts
CleanContent(k) ==
    /\ CanCallText
    /\ k \in 1..Len(content)
    /\ result' = Called("clean_content", clean_content(content[k]))
    /\ tcalls' = tcalls + 1
    /\ UNCHANGED <<postVars, coreVars, mainVars, writerVars, equivVars, MAIN_REGEX, SPACE_REGEX,
                   TOKENIZER, content, thread_id, forum_name, use_sentencepiece, inits>>

\* a call of tokenize on one of the texts
Tokenize(k) ==
    /\ CanCallText
    /\ k \in 1..Len(content)
    /\ result' = Called("tokenize", tokenize(content[k]))
    /\ tcalls' = tcalls + 1
    /\ UNCHANGED <<postVars, coreVars, mainVars, writerVars, equivVars, MAIN_REGEX, SPACE_REGEX,
                   TOKENIZER, content, thread_id, forum_name, use_sentencepiece, inits>>

\* process(&thread_id, &content, &forum_name, &use_sentencepiece)
Process ==
    /\ CanCallText
    /\ result' = Called("process",
                        process(thread_id, content, forum_name, use_sentencepiece))
    /\ tcalls' = tcalls + 1
    /\ UNCHANGED <<postVars, coreVars, mainVars, writerVars, equivVars, MAIN_REGEX, SPACE_REGEX,
                   TOKENIZER, content, thread_id, forum_name, use_sentencepiece, inits>>

NextProcess ==
    \/ InitRegexMain
    \/ InitRegexSpace
    \/ \E loads \in BOOLEAN : InitTokenizer(loads)
    \/ \E k \in 1..MaxTexts : CleanContent(k)
    \/ \E k \in 1..MaxTexts : Tokenize(k)
    \/ Process

SpecProcess == InitProcess /\ [][NextProcess]_vars

\* process returned a ThreadPost
Processed == result.kind = "post" /\ result.op = "process"

\* the number of words of s: the characters that start one
WordCount(s) ==
    Cardinality({i \in 1..Len(s) :
                    s[i] \notin SpaceChars /\ (i = 1 \/ s[i - 1] \in SpaceChars)})

\* C16: without a tokenizer, the length of the record process returns is
\* the number of whitespace-separated words of its raw_content, for every
\* list of texts, the empty list and texts that clean to nothing included.
C16_LengthIsWordCount ==
    (Processed /\ ~ use_sentencepiece) =>
        result.post.length = WordCount(result.post.raw_content)

C16_Witness ==
    /\ Processed /\ ~ use_sentencepiece
    /\ Len(content) = 2
    /\ clean_text(content[1]).text = <<>>
    /\ result.post.length >= 2

\* the positions of the newlines of s, and its k-th line
NewlinesOf(s) == {i \in 1..Len(s) : s[i] = Newline}

NthNewline(s, k) ==
    IF k = 0 THEN 0
    ELSE IF k > Cardinality(NewlinesOf(s)) THEN Len(s) + 1
    ELSE CHOOSE i \in NewlinesOf(s) :
            Cardinality({j \in NewlinesOf(s) : j <= i}) = k

Segment(s, k) == SubSeq(s, NthNewline(s, k - 1) + 1, NthNewline(s, k) - 1)

\* test_process
C17_Example ==
    (MAIN_REGEX = "set" /\ SPACE_REGEX = "set") =>
        process("test123", <<HelloWorld, UserUrl>>, "testforum", FALSE) =
            [kind |-> "post",
             post |-> [length |-> 2,
                       raw_content |-> <<"h", "e", "l", "l", "o", " ", "w", "o", "r", "l", "d">> \o <<Newline>>,
                       thread_id |-> "test123",
                       source |-> "testforum"]]

\* C17: the raw_content process returns is the cleaned texts joined by
\* single newlines in the order given: n >= 1 texts give n - 1 newlines, the
\* k-th line is the k-th cleaned text, a text that cleans to nothing is an
\* empty line, and thread_id and source are copied.
C17_RawContentJoined ==
    /\ C17_Example
    /\ Processed =>
          /\ result.post.thread_id = thread_id
          /\ result.post.source = forum_name
          /\ content = <<>> => result.post.raw_content = <<>>
          /\ content # <<>> =>
                /\ Cardinality(NewlinesOf(result.post.raw_content)) = Len(content) - 1
                /\ \A k \in 1..Len(content) :
                      Segment(result.post.raw_content, k) = clean_text(content[k]).text

C17_Witness ==
    /\ Processed
    /\ content = <<HelloWorld, UserUrl>>
    /\ result.post.raw_content = <<"h", "e", "l", "l", "o", " ", "w", "o", "r", "l", "d">> \o <<Newline>>

\* C18: clean_content called while init_regex has not run to its end
\* panics with "Regex has not been initialized", tokenize called while no
\* init_tokenizer has succeeded panics with "Tokenizer has not been
\* initialized", and once initialized neither call panics.
C18_UseBeforeInit ==
    [][tcalls' # tcalls =>
         /\ result'.op = "clean_content" =>
               IF MAIN_REGEX = "unset" \/ SPACE_REGEX = "unset"
               THEN result'.kind = "panic"
                    /\ result'.msg = "Regex has not been initialized"
               ELSE result'.kind = "text"
         /\ result'.op = "tokenize" =>
               IF TOKENIZER = "unset"
               THEN result'.kind = "panic"
                    /\ result'.msg = "Tokenizer has not been initialized"
               ELSE result'.kind = "encoding"]_vars

C18_Witness ==
    /\ result.op = "clean_content"
    /\ result.kind = "panic"
    /\ MAIN_REGEX = "set"
    /\ SPACE_REGEX = "unset"
    /\ TOKENIZER = "set"

(***************************************************************************)
(* SpecEquiv: test_threads_integration of main.rs on one folder:           *)
(* experimental::parallel::_get_threads (every node under the Mutex, then  *)
(* every edge) and then experimental::sender::get_threads (add_post in     *)
(* the order of the channel)                                               *)
(***************************************************************************)
InitEquiv ==
    /\ PostsOff
    /\ MainOff /\ WriterOff /\ TextOff
    /\ tg = new /\ out = <<>> /\ ntraverse = 0 /\ panicked = FALSE
    /\ ApiOff /\ TestOff /\ PipeOff
    /\ arrival_par \in Shuffles
    /\ arrival_snd \in {sq \in Shuffles : Len(sq) = Len(arrival_par)
                                          /\ Range(sq) = Range(arrival_par)}
    /\ par_pos = 0
    /\ par_pending = {}
    /\ par_comments = <<>>
    /\ par_epos = 0
    /\ par_tg = new
    /\ par_out = <<>>
    /\ snd_pos = 0
    /\ eqpc = "par"

\* _get_threads, first phase, under the graph's lock: add_node, and
\* add_threads for a thread; a comment is pushed after the lock is dropped
ParAddNode ==
    /\ eqpc = "par"
    /\ par_pos < Len(arrival_par)
    /\ LET thread == arrival_par[par_pos + 1]
           r == add_node(par_tg, thread)
       IN  IF thread.is_thread
           THEN par_tg' = add_threads(r.g, r.idx) /\ UNCHANGED par_pending
           ELSE par_tg' = r.g /\ par_pending' = par_pending \cup {thread}
    /\ par_pos' = par_pos + 1
    /\ UNCHANGED <<postVars, coreVars, mainVars, writerVars, textVars, arrival_par,
                   par_comments, par_epos, par_out, arrival_snd, snd_pos, eqpc>>

\* comments.lock().unwrap().push(thread)
ParPushComment(thread) ==
    /\ eqpc = "par"
    /\ thread \in par_pending
    /\ par_pending' = par_pending \ {thread}
    /\ par_comments' = Append(par_comments, thread)
    /\ UNCHANGED <<postVars, coreVars, mainVars, writerVars, textVars, arrival_par, par_pos,
                   par_epos, par_tg, par_out, arrival_snd, snd_pos, eqpc>>

\* the for_each of the first phase returns
ParNodesDone ==
    /\ eqpc = "par"
    /\ par_pos = Len(arrival_par)
    /\ par_pending = {}
    /\ eqpc' = "edges"
    /\ UNCHANGED <<postVars, coreVars, mainVars, writerVars, textVars, arrival_par, par_pos,
                   par_pending, par_comments, par_epos, par_tg, par_out,
                   arrival_snd, snd_pos>>

\* second phase: threadgraph.add_edge(&comment.parent_post_id, &comment.id)
ParAddEdge ==
    /\ eqpc = "edges"
    /\ par_epos < Len(par_comments)
    /\ LET comment == par_comments[par_epos + 1]
       IN  par_tg' = add_edge(par_tg, comment.parent_post_id, comment.id)
    /\ par_epos' = par_epos + 1
    /\ UNCHANGED <<postVars, coreVars, mainVars, writerVars, textVars, arrival_par, par_pos,
                   par_pending, par_comments, par_out, arrival_snd, snd_pos, eqpc>>

\* threadgraph.traverse(): _get_threads returns
ParReturn ==
    /\ eqpc = "edges"
    /\ par_epos = Len(par_comments)
    /\ par_out' = traverse(par_tg)
    /\ eqpc' = "snd"
    /\ UNCHANGED <<postVars, coreVars, mainVars, writerVars, textVars, arrival_par, par_pos,
                   par_pending, par_comments, par_epos, par_tg, arrival_snd,
                   snd_pos>>

\* experimental::sender: process_graph receives the next Post and adds it
SndAddPost ==
    /\ eqpc = "snd"
    /\ snd_pos < Len(arrival_snd)
    /\ tg' = add_post(tg, arrival_snd[snd_pos + 1])
    /\ snd_pos' = snd_pos + 1
    /\ UNCHANGED <<postVars, out, ntraverse, panicked, apiVars, testVars, pipeVars, mainVars,
                   writerVars, textVars, arrival_par, par_pos, par_pending,
                   par_comments, par_epos, par_tg, par_out, arrival_snd, eqpc>>

\* experimental::sender::get_threads returns graph.traverse()
SndReturn ==
    /\ eqpc = "snd"
    /\ snd_pos = Len(arrival_snd)
    /\ out' = traverse(tg)
    /\ ntraverse' = ntraverse + 1
    /\ eqpc' = "done"
    /\ UNCHANGED <<postVars, tg, panicked, apiVars, testVars, pipeVars, mainVars, writerVars,
                   textVars, arrival_par, par_pos, par_pending, par_comments,
                   par_epos, par_tg, par_out, arrival_snd, snd_pos>>

NextEquiv ==
    \/ ParAddNode
    \/ \E thread \in PostUniverse : ParPushComment(thread)
    \/ ParNodesDone
    \/ ParAddEdge
    \/ ParReturn
    \/ SndAddPost
    \/ SndReturn

SpecEquiv == InitEquiv /\ [][NextEquiv]_vars

\* C19: on the same folder contents, whatever the order in which the
\* records arrive, the Mutex-based implementation (all nodes, then all
\* edges) and the channel-based one return the same number of threads and
\* the same set of root ids.
C19_SameThreads ==
    eqpc = "done" =>
        /\ Len(par_out) = Len(out)
        /\ RootIds(par_out) = RootIds(out)

(***************************************************************************)
(* Properties of main (SpecMain), continued                                *)
(***************************************************************************)
\* the folders whose pipeline is running
RunningFolders == {f \in DOMAIN all_folders : fst[f] = "running"}

\* C21: with the low-memory flag set the folders are processed strictly one
\* after the other: never are the pipelines of two folders running at once.
C21_LowMemorySequential ==
    low_memory => Cardinality(RunningFolders) <= 1

\* C22: once the writer task has failed, nothing more is written to the
\* output, and the failure ends the whole run: main does not go on to
\* return normally.
C22_WriterFailureFatal ==
    [][wrpc = "failed" => (wrfile' = wrfile /\ mainpc' # "exited")]_vars

(***************************************************************************)
(* Properties of the ThreadGraph API (Spec), continued                     *)
(***************************************************************************)
\* the indices of the nodes of g
NodeIndices(g) == 1..Len(g.graph.nodes)

\* C23: after any calls of add_node, add_edge, add_threads and add_post,
\* node_map has exactly one entry per id seen (the ids inserted and the
\* parents edges named), maps distinct ids to distinct indices, the payload
\* vector is as long as the graph has nodes, and the payload at node_map[id]
\* has that id.
C23_NodeMapBijective ==
    /\ DOMAIN tg.node_map = Range(tg.graph.nodes)
    /\ records \subseteq DOMAIN tg.node_map
    /\ (last.op \in {"add_edge", "add_post"} /\ ~ panicked) =>
          {last.post.id, last.post.parent_post_id} \subseteq DOMAIN tg.node_map
    /\ Len(tg.allthreads) = Len(tg.graph.nodes)
    /\ \A id \in DOMAIN tg.node_map :
          /\ Count(tg.graph.nodes, id) = 1
          /\ tg.node_map[id] \in NodeIndices(tg)
          /\ tg.graph.nodes[tg.node_map[id]] = id
          /\ tg.allthreads[tg.node_map[id]].id = id
          /\ \A other \in DOMAIN tg.node_map :
                other # id => tg.node_map[other] # tg.node_map[id]

C23_Witness ==
    /\ last.op = "add_post"
    /\ Len(tg.graph.nodes) >= 3
    /\ Cardinality(records) < Len(tg.graph.nodes)
    /\ calls > Len(tg.graph.nodes)

\* C24: every edge connects two existing nodes; add_edge with a parent id
\* that has no node creates the parent as a placeholder and then adds the
\* edge; so no index traverse reads the payload vector at is out of range.
C24_EdgesBetweenNodes ==
    /\ \A k \in 1..Len(tg.graph.edges) :
          /\ tg.graph.edges[k][1] \in NodeIndices(tg)
          /\ tg.graph.edges[k][2] \in NodeIndices(tg)
    /\ \A id \in DOMAIN tg.node_map :
          id \notin records => tg.allthreads[tg.node_map[id]] = placeholder(id)
    /\ (last.op = "add_edge" /\ ~ panicked) =>
          /\ tg.graph.edges # <<>>
          /\ tg.graph.edges[Len(tg.graph.edges)] =
                <<tg.node_map[last.post.parent_post_id], tg.node_map[last.post.id]>>
    /\ \A i \in 1..Len(tg.threads) :
          /\ tg.threads[i] \in 1..Len(tg.allthreads)
          /\ Range(dfs_order(tg, tg.threads[i])) \subseteq 1..Len(tg.allthreads)

C24_Witness ==
    /\ last.op = "traverse"
    /\ Len(tg.graph.edges) >= 2
    /\ \E id \in DOMAIN tg.node_map : id \notin records
    /\ \E i \in 1..Len(out) : out[i][2][1] = "" /\ Len(out[i][2]) >= 2

(***************************************************************************)
(* Properties of the ingestion of test_functional_graph (SpecTest),        *)
(* continued                                                               *)
(***************************************************************************)
\* the posts the first loop has inserted
Inserted == {posts[k] : k \in 1..pos}

\* the indices of the tracked roots
Roots(g) == Range(g.threads)

\* the node indices a traversal from the root at position i of threads lists
ThreadNodes(g, i) == Range(dfs_order(g, g.threads[i]))

\* C25: ingesting a post whose parent_post_id is its own id adds no edge:
\* the graph never has an edge from a node to itself.
C25_NoSelfLoop ==
    \A k \in 1..Len(tg.graph.edges) :
        tg.graph.edges[k][1] # tg.graph.edges[k][2]

\* C26: a node is a tracked root exactly when a post of its id was inserted
\* with is_thread true or the node is the placeholder of a parent no post
\* was inserted for; a post inserted with is_thread false whose parent
\* already has a node does not become a root when its edge is added.
C26_RootsAreThreadsOrPlaceholders ==
    /\ \A idx \in NodeIndices(tg) :
          idx \in Roots(tg) <=>
              \/ \E p \in Inserted : p.id = tg.graph.nodes[idx] /\ p.is_thread
              \/ \A p \in Inserted : p.id # tg.graph.nodes[idx]
    /\ \A k \in 1..epos :
          (~ \E p \in Inserted : p.id = comments[k].id /\ p.is_thread)
              => tg.node_map[comments[k].id] \notin Roots(tg)

C26_Witness ==
    /\ tpc = "done"
    /\ \E p \in Inserted : p.is_thread /\ tg.node_map[p.id] \in Roots(tg)
    /\ \E idx \in Roots(tg) : \A p \in Inserted : p.id # tg.graph.nodes[idx]
    /\ \E k \in 1..epos :
          /\ \E p \in Inserted : p.id = comments[k].parent_post_id
          /\ tg.node_map[comments[k].id] \notin Roots(tg)

\* C27: the tracked roots never hold the same node index twice, and
\* traverse returns no two pairs with the same root id.
C27_RootsDistinct ==
    /\ \A i, j \in 1..Len(tg.threads) : i # j => tg.threads[i] # tg.threads[j]
    /\ \A i, j \in 1..Len(out) : i # j => out[i][1] # out[j][1]

\* C28: the threads traverse returns are disjoint: no node is listed under
\* two different roots.
C28_ThreadsDisjoint ==
    \A i, j \in 1..Len(tg.threads) :
        tg.threads[i] # tg.threads[j]
            => ThreadNodes(tg, i) \cap ThreadNodes(tg, j) = {}

\* C29: once the posts are inserted and their edges added, every node is
\* reachable from a tracked root, so traverse lists the text of every post.
C29_EveryPostSurfaced ==
    tpc = "done" =>
        \A idx \in NodeIndices(tg) :
            \E i \in 1..Len(tg.threads) : idx \in ThreadNodes(tg, i)

(***************************************************************************)
(* traverse on graphs with cycles (SpecCycle): the graph is built by calls *)
(* of add_node, add_edge between nodes that exist, in any direction, and   *)
(* add_threads; then traverse is called on it                              *)
(***************************************************************************)
MaxNodes == 3
MaxEdges == 3

\* the post of the n-th node
CyclePost(n) == Post(ToString(n), FALSE, ToString(n), ToString(n), ToString(n))

\* add_node for the posts 1 .. n
RECURSIVE add_nodes(_, _)
add_nodes(g, n) ==
    IF n = 0 THEN g ELSE add_node(add_nodes(g, n - 1), CyclePost(n)).g

\* add_edge for the first k pairs (from_id, to_id) of es
RECURSIVE add_edges(_, _, _)
add_edges(g, es, k) ==
    IF k = 0 THEN g
    ELSE add_edge(add_edges(g, es, k - 1), es[k][1], es[k][2])

\* add_threads for the indices of ts
RECURSIVE add_roots(_, _, _)
add_roots(g, ts, k) ==
    IF k = 0 THEN g ELSE add_threads(add_roots(g, ts, k - 1), ts[k])

\* the ids of the nodes 1 .. n
CycleIds(n) == {ToString(k) : k \in 1..n}

\* the graph of n nodes with the edges es and the tracked roots ts
CycleGraph(n, es, ts) ==
    add_roots(add_edges(add_nodes(new, n), es, Len(es)), ts, Len(ts))

InitCycle ==
    /\ PostsOff
    /\ MainOff /\ WriterOff /\ TextOff /\ EquivOff
    /\ ApiOff /\ TestOff /\ PipeOff
    \* at most MaxNodes nodes, MaxEdges edges from any node to any node, and
    \* at most one tracked root
    /\ \E n \in 1..MaxNodes :
          \E es \in SeqsUpTo(CycleIds(n) \X CycleIds(n), MaxEdges) :
              \E ts \in SeqsUpTo(1..n, 1) :
                  tg = CycleGraph(n, es, ts)
    /\ out = <<>>
    /\ ntraverse = 0
    /\ panicked = FALSE

CycleTraverse ==
    /\ ntraverse = 0
    /\ out' = traverse(tg)
    /\ ntraverse' = ntraverse + 1
    /\ UNCHANGED <<extVars, tg, panicked, apiVars, testVars, pipeVars>>

NextCycle == CycleTraverse

SpecCycle == InitCycle /\ [][NextCycle]_vars

\* some node of g reaches itself along one edge or more
HasCycleFrom(g, start) ==
    \E n \in Reachable(g, start) :
        \E e \in EdgeSet(g) : e[1] = n /\ n \in Reachable(g, e[2])

\* C30: traverse returns on every finite graph, with a cycle or a self-loop
\* too, and the thread of a root lists every node reachable from the root
\* once and no other node.
C30_TraverseCyclesOnce ==
    ntraverse = 1 =>
        /\ Len(out) = Len(tg.threads)
        /\ \A i \in 1..Len(tg.threads) :
              LET order == dfs_order(tg, tg.threads[i])
              IN  /\ Range(order) = Reachable(tg, tg.threads[i])
                  /\ \A n \in Range(order) : Count(order, n) = 1
                  /\ Len(out[i][2]) = Cardinality(Reachable(tg, tg.threads[i]))
                  /\ \A n \in Reachable(tg, tg.threads[i]) :
                        Count(out[i][2], tg.allthreads[n].pagetext) = 1

C30_Witness ==
    /\ ntraverse = 1
    /\ Len(tg.threads) = 1
    /\ HasCycleFrom(tg, tg.threads[1])
    /\ \E e \in EdgeSet(tg) : e[1] = e[2] /\ e[1] \in Reachable(tg, tg.threads[1])
    /\ \E e \in EdgeSet(tg) : e[1] # e[2] /\ <<e[2], e[1]>> \in EdgeSet(tg)
                               /\ e[1] \in Reachable(tg, tg.threads[1])
    /\ Len(out[1][2]) >= 2

(***************************************************************************)
(* Properties of the ThreadGraph API (Spec): repeated records, show_roots, *)
(* a failing add_edge                                                      *)
(***************************************************************************)
\* the edge add_edge adds for the comment p, once both ids have a node
EdgeOf(g, p) == <<g.node_map[p.parent_post_id], g.node_map[p.id]>>

\* the comment p is in g already: its node holds the record and its edge
\* is in the graph
IngestedComment(g, p) ==
    /\ ~ p.is_thread
    /\ is_in_map(g, p.id)
    /\ is_in_map(g, p.parent_post_id)
    /\ g.allthreads[g.node_map[p.id]] = p
    /\ EdgeOf(g, p) \in EdgeSet(g)

\* C31: ingesting a comment record that is in the graph already (add_node,
\* then add_edge) adds one more parent-to-child edge and nothing else, and
\* traverse returns what it returned before: the same roots in the same
\* order, each with the same list of texts.
C31_RepeatedCommentHarmless ==
    [][(~ panicked' /\ calls' # calls /\ last'.op \in {"add_node", "add_edge"}
            /\ IngestedComment(tg, last'.post))
        => /\ traverse(tg') = traverse(tg)
           /\ last'.op = "add_node" => tg' = tg
           /\ last'.op = "add_edge" =>
                 tg' = [tg EXCEPT !.graph.edges = Append(@, EdgeOf(tg, last'.post))]
      ]_vars

C31_Witness ==
    /\ last.op = "add_edge"
    /\ ~ panicked
    /\ IngestedComment(tg, last.post)
    /\ Count(tg.graph.edges, EdgeOf(tg, last.post)) = 2
    /\ \E i \in 1..Len(tg.threads) :
          /\ tg.node_map[last.post.id] \in ThreadNodes(tg, i)
          /\ Cardinality(ThreadNodes(tg, i)) >= 3

\* the number of edges into node n
InDegree(g, n) == Cardinality({k \in 1..Len(g.graph.edges) : g.graph.edges[k][2] = n})

\* both loops of the ingestion have run to their end
InsertionsComplete == tpc # "off" /\ pos = Len(posts) /\ epos = Len(comments)

\* C32: show_roots returns exactly the nodes of in-degree 0, each once, in
\* index order; and once every post is inserted and every comment has its
\* edge, each node it returns is a tracked root.
C32_ShowRootsWithinRoots ==
    LET roots_idx == show_roots(tg)
    IN  /\ Range(roots_idx) = {n \in NodeIndices(tg) : InDegree(tg, n) = 0}
        /\ \A i, j \in 1..Len(roots_idx) : i < j => roots_idx[i] < roots_idx[j]
        /\ InsertionsComplete => Range(roots_idx) \subseteq Roots(tg)

C32_Witness ==
    /\ InsertionsComplete
    /\ Len(show_roots(tg)) >= 2
    /\ \E n \in NodeIndices(tg) : InDegree(tg, n) > 0
    /\ \E n \in Range(show_roots(tg)) : \A p \in Inserted : p.id # tg.graph.nodes[n]
    /\ \E n \in Range(show_roots(tg)) : \E p \in Inserted : p.id = tg.graph.nodes[n] /\ p.is_thread

(***************************************************************************)
(* Properties of main (SpecMain), continued                                *)
(***************************************************************************)
\* every byte of record k of folder f is in the output file
Written(f, k) == Range(Rec(f, k)) \subseteq Range(wrfile)

\* C33: the stages of a folder follow one another, and the folder is
\* counted as processed (process_folder has returned and the counter is
\* incremented) only after all of its records have been written.
C33_CountedAfterWritten ==
    \A f \in DOMAIN all_folders :
        fst[f] = "done" =>
            /\ fsent[f] = all_folders[f].nrec
            /\ \A k \in 1..all_folders[f].nrec : Written(f, k)

\* C34: main does not return while the writer task has records to receive
\* or bytes to flush: when main has returned, every record sent on the
\* channel is in the output file.
C34_WrittenBeforeExit ==
    mainpc = "exited" =>
        /\ data_chan = <<>>
        /\ wrbuf = <<>>
        /\ \A f \in DOMAIN all_folders : \A k \in 1..fsent[f] : Written(f, k)

(***************************************************************************)
(* SpecSendPosts: sender_thread_posts of forum_thread.rs: the threads that *)
(* traverse returned go through process under par_iter().with_min_len(50)  *)
(* .for_each and every serialized record is sent on the channel            *)
(***************************************************************************)
\* the number of threads of a short list
MaxPairs == 2

\* with_min_len(50)
MIN_LEN == 50

\* the ranges of lo..hi that rayon's bridge folds sequentially when no
\* range is shorter than min: LengthSplitter::try_split halves a range only
\* if each half keeps min items and the inner Splitter allows it
RECURSIVE LeafSetsMin(_, _, _, _, _, _)
LeafSetsMin(lo, hi, splits, migrated, workers, min) ==
    LET len == hi - lo + 1
        mid == lo + (len \div 2) - 1
        s2  == IF migrated THEN Max(workers, splits \div 2) ELSE splits \div 2
        steal == IF workers > 1 THEN BOOLEAN ELSE {FALSE}
    IN  IF len = 0 THEN {{}}
        ELSE IF len \div 2 < min \/ ~ (migrated \/ splits > 0) THEN {{<<lo, hi>>}}
        ELSE { L \cup R :
                 L \in LeafSetsMin(lo, mid, s2, FALSE, workers, min),
                 R \in UNION { LeafSetsMin(mid + 1, hi, s2, m, workers, min) :
                                 m \in steal } }

\* the (thread_id, texts) pairs of a short list: two threads with one id, a
\* thread without texts, a thread with a text that cleans to nothing
PairUniverse ==
    { <<"t1", <<HelloWorld>>>>, <<"t1", <<>>>>,
      <<"t2", << <<"a", " ", "b">>, <<" ", " ">> >>>> }

\* a list of n threads that starts with the threads of head; every further
\* thread has its position as id and no text
LongThreads(head, n) ==
    [k \in 1..n |-> IF k <= Len(head) THEN head[k] ELSE <<ToString(k), <<>>>>]

\* serde_json::to_string(&threadpost): the fields in the order of the struct
to_string(threadpost) ==
    <<"{", "length", threadpost.length, "raw_content", threadpost.raw_content,
      "thread_id", threadpost.thread_id, "source", threadpost.source, "}">>

\* one more String x among the Strings sent
Sent(rx, x) == Put(rx, x, IF x \in DOMAIN rx THEN rx[x] + 1 ELSE 1)

\* the globals as main leaves them before the first folder: init_regex,
\* and init_tokenizer when a tokenizer is named
GlobalsOfMain ==
    /\ use_sentencepiece \in BOOLEAN
    /\ MAIN_REGEX = "set" /\ SPACE_REGEX = "set"
    /\ TOKENIZER = IF use_sentencepiece THEN "set" ELSE "unset"
    /\ content = <<>> /\ thread_id = ""
    /\ forum_name = "testforum"
    /\ result = [kind |-> "none"] /\ tcalls = 0 /\ inits = <<>>

InitSendPosts ==
    /\ MainOff /\ WriterOff /\ EquivOff
    /\ tg = new /\ out = <<>> /\ ntraverse = 0 /\ panicked = FALSE
    /\ ApiOff /\ TestOff /\ PipeOff
    /\ GlobalsOfMain
    \* a short list, or a list long enough to be split in two
    /\ \E head \in SeqsUpTo(PairUniverse, MaxPairs) :
          tp_threads \in {head, LongThreads(head, 2 * MIN_LEN)}
    /\ tp_leaves \in UNION { LeafSetsMin(1, Len(tp_threads), t, FALSE, t, MIN_LEN) :
                               t \in ThreadCounts }
    /\ folded = [l \in tp_leaves |-> 0]
    /\ sender_rx = EmptyMap
    /\ thread_posts = <<>>
    /\ byte_counter = 0
    /\ tppc = "for_each"

\* the closure without the send for a record with no content
SendThreadPost_skip_empty(l) ==
    /\ tppc = "for_each"
    /\ folded[l] < l[2] - l[1] + 1
    /\ LET k == l[1] + folded[l]
           threadpost == process(tp_threads[k][1], tp_threads[k][2], forum_name,
                                 use_sentencepiece)
       IN  IF threadpost.kind = "panic"
           THEN tppc' = "panicked" /\ UNCHANGED sender_rx
           ELSE /\ sender_rx' = IF threadpost.post.raw_content = <<>> THEN sender_rx
                                ELSE Sent(sender_rx, to_string(threadpost.post))
                /\ UNCHANGED tppc
    /\ folded' = [folded EXCEPT ![l] = @ + 1]
    /\ UNCHANGED <<coreVars, mainVars, writerVars, textVars, equivVars, tp_threads,
                   tp_leaves, thread_posts, byte_counter>>

\* the closure of for_each on the next thread of the range l: process, then
\* send(serde_json::to_string(&threadpost).unwrap()).unwrap()
SendThreadPost(l) ==
    /\ tppc = "for_each"
    /\ folded[l] < l[2] - l[1] + 1
    /\ LET k == l[1] + folded[l]
           threadpost == process(tp_threads[k][1], tp_threads[k][2], forum_name,
                                 use_sentencepiece)
       IN  IF threadpost.kind = "panic"
           THEN tppc' = "panicked" /\ UNCHANGED sender_rx
           ELSE /\ sender_rx' = Sent(sender_rx, to_string(threadpost.post))
                /\ UNCHANGED tppc
    /\ folded' = [folded EXCEPT ![l] = @ + 1]
    /\ UNCHANGED <<coreVars, mainVars, writerVars, textVars, equivVars, tp_threads,
                   tp_leaves, thread_posts, byte_counter>>

\* for_each returns when every range is folded
SendReturn ==
    /\ tppc = "for_each"
    /\ \A l \in tp_leaves : folded[l] = l[2] - l[1] + 1
    /\ tppc' = "returned"
    /\ UNCHANGED <<coreVars, mainVars, writerVars, textVars, equivVars, tp_threads,
                   tp_leaves, folded, sender_rx, thread_posts, byte_counter>>

NextSendPosts ==
    \/ \E l \in tp_leaves : SendThreadPost(l)
    \/ SendReturn

SpecSendPosts == InitSendPosts /\ [][NextSendPosts]_vars

\* the number of Strings sent that are in S
RECURSIVE SentIn(_)
SentIn(S) ==
    IF S = {} THEN 0
    ELSE LET x == CHOOSE y \in S : TRUE IN sender_rx[x] + SentIn(S \ {x})

\* the number of Strings sent with thread_id tid
SentFor(tid) == SentIn({x \in DOMAIN sender_rx : x[7] = tid})

\* C35: sender_thread_posts sends exactly one record for every
\* (thread_id, texts) pair of its argument, with the thread_id of the pair,
\* its cleaned content and the source label, whatever the interleaving of
\* the tasks: when for_each has returned, the records sent with a thread id
\* are as many as the pairs with that id, and no task has panicked.
C35_OneRecordPerThread ==
    /\ tppc # "panicked"
    /\ \A x \in DOMAIN sender_rx : x[9] = forum_name
    /\ tppc = "returned" =>
          /\ \A l \in tp_leaves : folded[l] = l[2] - l[1] + 1
          /\ \A x \in DOMAIN sender_rx :
                \E k \in 1..Len(tp_threads) : x[7] = tp_threads[k][1]
          /\ \A k \in 1..Len(tp_threads) :
                /\ SentFor(tp_threads[k][1]) =
                      Cardinality({j \in 1..Len(tp_threads) :
                                      tp_threads[j][1] = tp_threads[k][1]})
                /\ \E x \in DOMAIN sender_rx :
                      /\ x[7] = tp_threads[k][1]
                      /\ x[5] = process(tp_threads[k][1], tp_threads[k][2], forum_name,
                                        use_sentencepiece).post.raw_content

C35_Witness ==
    /\ tppc = "returned"
    /\ Cardinality(tp_leaves) = 2
    /\ \E k \in 1..Len(tp_threads) : tp_threads[k][2] = <<>>
    /\ \E j, k \in 1..Len(tp_threads) : j # k /\ tp_threads[j][1] = tp_threads[k][1]
    /\ \E x \in DOMAIN sender_rx : x[5] # <<>>

(***************************************************************************)
(* SpecCreatePosts: create_thread_posts of forum_thread.rs: the threads go *)
(* through process, in parallel above 5000 threads and one by one up to    *)
(* that; the result is the Vec of serialized records and the byte total    *)
(***************************************************************************)
\* threads.len() > 5000
ParallelThreshold == 5000

\* the String of the thread at position k
PostString(k) ==
    to_string(process(tp_threads[k][1], tp_threads[k][2], forum_name,
                      use_sentencepiece).post)

\* threadpost.raw_content.len() of the thread at position k
RawLen(k) ==
    Len(process(tp_threads[k][1], tp_threads[k][2], forum_name,
                use_sentencepiece).post.raw_content)

\* what the fetch_add calls for the threads lo..hi add to byte_counter
RECURSIVE FetchAdds(_, _)
FetchAdds(lo, hi) ==
    IF lo > hi THEN 0
    ELSE IF lo = hi THEN RawLen(lo)
    ELSE LET mid == lo + (hi - lo) \div 2
         IN  FetchAdds(lo, mid) + FetchAdds(mid + 1, hi)

\* the String that stands for a slot of posts that is not written yet
Unwritten == <<>>

\* the ranges of the parallel branch: the list as rayon's bridge halves it
\* for one or two threads when no job is stolen
ParallelLeaves(n) ==
    UNION { LeafSets(1, n, t, FALSE, 1) : t \in ThreadCounts }

InitCreatePosts ==
    /\ MainOff /\ WriterOff /\ EquivOff
    /\ tg = new /\ out = <<>> /\ ntraverse = 0 /\ panicked = FALSE
    /\ ApiOff /\ TestOff /\ PipeOff
    /\ GlobalsOfMain
    \* a short list, or a list of more than 5000 threads
    /\ tp_threads \in SeqsUpTo(PairUniverse, MaxPairs)
                        \cup {LongThreads(<<p>>, ParallelThreshold + 1) : p \in PairUniverse}
    /\ tp_leaves \in IF Len(tp_threads) > ParallelThreshold
                     THEN ParallelLeaves(Len(tp_threads))
                     ELSE {{<<1, Len(tp_threads)>>}}
    /\ folded = [l \in tp_leaves |-> 0]
    /\ sender_rx = EmptyMap
    /\ thread_posts = [k \in 1..Len(tp_threads) |-> Unwritten]
    /\ byte_counter = 0
    /\ tppc = "map"

\* the number of threads of the ranges of L that are folded
RECURSIVE FoldedIn(_)
FoldedIn(L) ==
    IF L = {} THEN 0
    ELSE LET l == CHOOSE x \in L : TRUE IN folded[l] + FoldedIn(L \ {l})

\* a parallel branch that pushes the Strings of a range behind the ones
\* that are in posts already
ParMap_push(l) ==
    /\ tppc = "map"
    /\ Len(tp_threads) > ParallelThreshold
    /\ folded[l] = 0
    /\ thread_posts' =
          [k \in 1..Len(tp_threads) |->
              IF FoldedIn(tp_leaves) < k /\ k <= FoldedIn(tp_leaves) + l[2] - l[1] + 1
              THEN PostString(l[1] + k - FoldedIn(tp_leaves) - 1)
              ELSE thread_posts[k]]
    /\ byte_counter' = byte_counter + FetchAdds(l[1], l[2])
    /\ folded' = [folded EXCEPT ![l] = l[2] - l[1] + 1]
    /\ UNCHANGED <<coreVars, mainVars, writerVars, textVars, equivVars, tp_threads,
                   tp_leaves, sender_rx, tppc>>

\* the parallel branch on the range l: par_iter().map(..) gives every
\* thread to process, adds its raw_content.len() to byte_counter with
\* fetch_add, and collect_into_vec writes its String at its own position
ParMap(l) ==
    /\ tppc = "map"
    /\ Len(tp_threads) > ParallelThreshold
    /\ folded[l] = 0
    /\ thread_posts' = [k \in 1..Len(tp_threads) |->
                          IF l[1] <= k /\ k <= l[2] THEN PostString(k)
                          ELSE thread_posts[k]]
    /\ byte_counter' = byte_counter + FetchAdds(l[1], l[2])
    /\ folded' = [folded EXCEPT ![l] = l[2] - l[1] + 1]
    /\ UNCHANGED <<coreVars, mainVars, writerVars, textVars, equivVars, tp_threads,
                   tp_leaves, sender_rx, tppc>>

\* the sequential branch: iter().map(..).collect()
SeqMap(l) ==
    /\ tppc = "map"
    /\ Len(tp_threads) <= ParallelThreshold
    /\ folded[l] = 0
    /\ thread_posts' = [k \in 1..Len(tp_threads) |-> PostString(k)]
    /\ byte_counter' = byte_counter + FetchAdds(1, Len(tp_threads))
    /\ folded' = [folded EXCEPT ![l] = l[2] - l[1] + 1]
    /\ UNCHANGED <<coreVars, mainVars, writerVars, textVars, equivVars, tp_threads,
                   tp_leaves, sender_rx, tppc>>

\* (posts, byte_counter.into_inner())
CreateReturn ==
    /\ tppc = "map"
    /\ \A l \in tp_leaves : folded[l] = l[2] - l[1] + 1
    /\ tppc' = "returned"
    /\ UNCHANGED <<coreVars, mainVars, writerVars, textVars, equivVars, tp_threads,
                   tp_leaves, folded, sender_rx, thread_posts, byte_counter>>

NextCreatePosts ==
    \/ \E l \in tp_leaves : ParMap(l)
    \/ \E l \in tp_leaves : SeqMap(l)
    \/ CreateReturn

SpecCreatePosts == InitCreatePosts /\ [][NextCreatePosts]_vars

\* C36: create_thread_posts returns on its parallel branch what its
\* sequential branch computes: the serialized record of every thread at the
\* position of the thread, and the sum of the raw_content lengths, in
\* whatever order the tasks of the parallel branch run.
C36_ParallelAsSequential ==
    tppc = "returned" =>
        /\ Len(thread_posts) = Len(tp_threads)
        /\ \A k \in 1..Len(tp_threads) : thread_posts[k] = PostString(k)
        /\ byte_counter = FetchAdds(1, Len(tp_threads))

C36_Witness ==
    /\ tppc = "returned"
    /\ Len(tp_threads) > ParallelThreshold
    /\ Cardinality(tp_leaves) >= 3
    /\ byte_counter > 0
    /\ \E j, k \in 1..Len(thread_posts) : thread_posts[j][5] # thread_posts[k][5]

(***************************************************************************)
(* SpecShards: get_threads of sender.rs on folders whose records form a    *)
(* chain of replies, 3 under 2 under 1                                     *)
(***************************************************************************)
ChainLines ==
    { JsonLine(JsonStruct("2", "N", "B", "1", "1")),
      JsonLine(JsonStruct("3", "N", "C", "2", "1")),
      Malformed }

\* every folder of such lines
ChainFolders ==
    UNION { {f \in [E -> SeqsUpTo(ChainLines, MaxLines)] :
                SumLen(f, E) <= MaxLines} : E \in SUBSET Shards }

InitShards ==
    /\ PostsOff
    /\ MainOff /\ WriterOff /\ TextOff /\ EquivOff
    /\ tg = new
    /\ out = <<>>
    /\ ntraverse = 0
    /\ panicked = FALSE
    /\ ApiOff
    /\ TestOff
    /\ files \in ChainFolders
    /\ benchmark \in BOOLEAN
    /\ mpc = "spawn"
    /\ wst = [e \in DOMAIN files |-> "todo"]
    /\ wpos = [e \in DOMAIN files |-> 0]
    /\ chan = <<>>
    /\ senders = 1
    /\ cpc = "off"
    /\ sent = <<>>
    /\ ingested = <<>>
    /\ lock = "free"

SpecShards == InitShards /\ [][NextSender]_vars

\* the Posts of the shards k.. of the listing, shard after shard
RECURSIVE PostsInOrder(_)
PostsInOrder(k) ==
    IF k > Len(ShardOrder) THEN <<>>
    ELSE (IF ShardOrder[k] \in entries
          THEN PostsOfLines(Readable(files[ShardOrder[k]])) ELSE <<>>)
         \o PostsInOrder(k + 1)

\* what get_threads returns when the shards are processed one after the
\* other
SequentialResult == traverse(Ingest(new, PostsInOrder(1)))

\* the texts that res lists under the root id r
TextsUnder(res, r) ==
    UNION {Range(res[i][2]) : i \in {j \in 1..Len(res) : res[j][1] = r}}

\* C37: for the shard files of a folder, get_threads returns the root ids
\* and, for each root, the set of texts that it returns when the shards
\* are processed one after the other, under BENCHMARK=1 and under every
\* interleaving of the parallel shard tasks.
C37_SequentialAsParallel ==
    mpc = "done" =>
        /\ RootIds(out) = RootIds(SequentialResult)
        /\ \A r \in RootIds(out) : TextsUnder(out, r) = TextsUnder(SequentialResult, r)


(***************************************************************************)
(* The OnceLock cells of globals.rs under repeated initialisation          *)
(***************************************************************************)
\* the number of init_regex and init_tokenizer calls made on the cells
MaxInits == 4

\* the tokenizer names init_tokenizer is called with: a hub name and a file
TokenizerNames == {"openai-community/gpt2", "tokenizer.json"}

\* the Regex compiled by the closure of the n-th init call
Compiled(n) == "compiled by call " \o ToString(n)

\* OnceLock::get_or_init: the closure runs, and its value is stored, on an
\* empty cell only
get_or_init(cell, v) == IF cell = "unset" THEN v ELSE cell

\* OnceLock::set: Ok(()) with the value stored on an empty cell, Err(value)
\* with the cell as it was on a full one
set(cell, v) ==
    IF cell = "unset" THEN [ok |-> TRUE, cell |-> v]
    ELSE [ok |-> FALSE, cell |-> cell]

CanInit == Len(inits) < MaxInits

\* an init call in the history
InitCall(op, arg, kind) == [op |-> op, arg |-> arg, kind |-> kind]

\* init_regex with a plain store in place of get_or_init
init_regex_recompile ==
    /\ CanInit
    /\ MAIN_REGEX' = Compiled(Len(inits) + 1)
    /\ SPACE_REGEX' = Compiled(Len(inits) + 1)
    /\ result' = Called("init_regex", [kind |-> "unit"])
    /\ inits' = Append(inits, InitCall("init_regex", "", "unit"))
    /\ tcalls' = tcalls + 1
    /\ UNCHANGED <<postVars, coreVars, mainVars, writerVars, equivVars, TOKENIZER,
                   content, thread_id, forum_name, use_sentencepiece>>

\* init_regex()
init_regex ==
    /\ CanInit
    /\ MAIN_REGEX' = get_or_init(MAIN_REGEX, Compiled(Len(inits) + 1))
    /\ SPACE_REGEX' = get_or_init(SPACE_REGEX, Compiled(Len(inits) + 1))
    /\ result' = Called("init_regex", [kind |-> "unit"])
    /\ inits' = Append(inits, InitCall("init_regex", "", "unit"))
    /\ tcalls' = tcalls + 1
    /\ UNCHANGED <<postVars, coreVars, mainVars, writerVars, equivVars, TOKENIZER,
                   content, thread_id, forum_name, use_sentencepiece>>

\* init_tokenizer(&tokenizer_name): from_file or from_pretrained loads the
\* tokenizer or the unwrap panics; then TOKENIZER.set, and expect panics on
\* its Err
init_tokenizer(tokenizer_name, loads) ==
    /\ CanInit
    /\ LET r == set(TOKENIZER, tokenizer_name)
           outcome ==
               IF ~ loads THEN Panic("called Result::unwrap() on an Err value")
               ELSE IF ~ r.ok THEN Panic("Unable to load tokenizer")
               ELSE [kind |-> "unit"]
       IN  /\ TOKENIZER' = IF loads THEN r.cell ELSE TOKENIZER
           /\ result' = Called("init_tokenizer", outcome)
           /\ inits' = Append(inits,
                              InitCall("init_tokenizer", tokenizer_name, outcome.kind))
    /\ tcalls' = tcalls + 1
    /\ UNCHANGED <<postVars, coreVars, mainVars, writerVars, equivVars, MAIN_REGEX,
                   SPACE_REGEX, content, thread_id, forum_name, use_sentencepiece>>

\* a call of clean_content or of tokenize between the init calls
UseGlobals(k) ==
    /\ k \in 1..Len(content)
    /\ \/ result' = Called("clean_content", clean_content(content[k]))
       \/ result' = Called("tokenize", tokenize(content[k]))
    /\ result' # result
    /\ UNCHANGED <<postVars, coreVars, mainVars, writerVars, equivVars, MAIN_REGEX,
                   SPACE_REGEX, TOKENIZER, content, thread_id, forum_name,
                   use_sentencepiece, inits, tcalls>>

NextGlobals ==
    \/ init_regex
    \/ \E name \in TokenizerNames, loads \in BOOLEAN : init_tokenizer(name, loads)
    \/ \E k \in 1..MaxTexts : UseGlobals(k)

\* the cells as the program starts, with the texts of one thread at hand
InitGlobals ==
    /\ PostsOff
    /\ MainOff /\ WriterOff /\ EquivOff
    /\ tg = new /\ out = <<>> /\ ntraverse = 0 /\ panicked = FALSE
    /\ ApiOff /\ TestOff /\ PipeOff
    /\ MAIN_REGEX = "unset" /\ SPACE_REGEX = "unset" /\ TOKENIZER = "unset"
    /\ content \in {<<HelloWorld>>, <<UserUrl, <<"a", " ", "b">>>>}
    /\ thread_id = "test123"
    /\ forum_name = "testforum"
    /\ use_sentencepiece \in BOOLEAN
    /\ result = Called("none", [kind |-> "none"])
    /\ tcalls = 0 /\ inits = <<>>

SpecGlobals == InitGlobals /\ [][NextGlobals]_vars

\* the init calls made so far that were op and ended as kind
InitsOf(op, kind) ==
    {i \in 1..Len(inits) : inits[i].op = op /\ inits[i].kind = kind}

\* the earliest of a set of calls
First(S) == CHOOSE i \in S : \A j \in S : i <= j

\* C38: an init_tokenizer call made after a successful one panics and leaves
\* TOKENIZER holding the first tokenizer; an init_regex call made after
\* another init_regex call returns normally and leaves MAIN_REGEX and
\* SPACE_REGEX holding the matchers the first call compiled.
C38_TokenizerOnceRegexAnyTimes ==
    [][inits' # inits =>
         LET c == inits'[Len(inits')]
         IN  /\ (c.op = "init_tokenizer" /\ InitsOf("init_tokenizer", "unit") # {})
                   => /\ c.kind = "panic"
                      /\ result'.kind = "panic"
                      /\ TOKENIZER' = TOKENIZER
                      /\ TOKENIZER' = inits[First(InitsOf("init_tokenizer", "unit"))].arg
             /\ (c.op = "init_regex" /\ InitsOf("init_regex", "unit") # {})
                   => /\ c.kind = "unit"
                      /\ result'.kind = "unit"
                      /\ MAIN_REGEX' = MAIN_REGEX
                      /\ SPACE_REGEX' = SPACE_REGEX
                      /\ MAIN_REGEX' = Compiled(First(InitsOf("init_regex", "unit")))
                      /\ SPACE_REGEX' = MAIN_REGEX']_vars

\* two init_regex calls and two init_tokenizer calls whose tokenizers loaded
\* were made, the second init_tokenizer with another name and last of all
C38_Witness ==
    /\ Len(inits) = 4
    /\ inits[1] = InitCall("init_regex", "", "unit")
    /\ inits[2] = InitCall("init_tokenizer", "tokenizer.json", "unit")
    /\ inits[3] = InitCall("init_regex", "", "unit")
    /\ inits[4] = InitCall("init_tokenizer", "openai-community/gpt2", "panic")
    /\ result = Called("init_tokenizer", Panic("Unable to load tokenizer"))
    /\ TOKENIZER = "tokenizer.json"
    /\ MAIN_REGEX = Compiled(1) /\ SPACE_REGEX = Compiled(1)


(***************************************************************************)
(* add_edge with a to_id that has no node                                  *)
(***************************************************************************)
\* C39: a call add_edge(from_id, to_id) whose to_id has no node panics and
\* leaves the graph as it was: no node, no edge and no tracked root is
\* added, also when from_id has no node either.
C39_FailedAddEdgeLeavesGraph ==
    [][(calls' # calls /\ last'.op = "add_edge" /\ ~ is_in_map(tg, last'.post.id))
          => (panicked' /\ tg' = tg)]_vars

====
